---------------------------- MODULE Spec2Model ----------------------------
(***************************************************************************)
(* Paged key/value-cache attention of vllm/attention/backends/hpu_attn.py. *)
(*                                                                         *)
(* Tensors are functions over their index sets.  A head vector is one      *)
(* number (head_size collapsed to 1), so a dot product over head_size is a *)
(* product.  Scores are small integers (exact in bfloat16) or MinusInf;    *)
(* everything from exp() on is bfloat16: a pair <<m, e>> meaning m * 2^e   *)
(* with an 8-bit significand, rounded to nearest-even after every          *)
(* operation, as torch does element by element.                            *)
(***************************************************************************)
EXTENDS Integers, Sequences, FiniteSets, TLC

(***************************************************************************)
(* Bounds of the model.                                                    *)
(***************************************************************************)
\* blocks of the cache, and slots of a block
NumBlocks == 2
BlockSize == 2
\* tokens of one forward call
MaxTokens == 2
\* forward calls of one run
MaxCalls == 2
\* entries of a decode block_list
MaxBlockList == 2

(***************************************************************************)
(* Program constants.                                                      *)
(***************************************************************************)
\* significand bits of torch.bfloat16
Precision == 8
\* VLLM_SOFTMAX_CONST_VAL, default '10.0'
const_val == 10

(***************************************************************************)
(* bfloat16 arithmetic.                                                    *)
(***************************************************************************)
FZero == <<0, 0>>
\* a non-finite result (x / 0)
FNaN == <<0 - 1, 0>>
IsNaN(x) == x[1] < 0
IsZero(x) == x[1] = 0

BitLen(n) == CHOOSE k \in 0..30 : n < 2^k /\ (k = 0 \/ n >= 2^(k-1))

\* n * 2^e rounded to Precision significant bits, ties to even
RN(n, e) ==
    IF n = 0 THEN FZero
    ELSE LET L == BitLen(n) IN
         IF L <= Precision
         THEN <<n * 2^(Precision - L), e - (Precision - L)>>
         ELSE LET k == L - Precision
                  q == n \div 2^k
                  r == n % 2^k
                  half == 2^(k-1)
                  m == IF r > half \/ (r = half /\ q % 2 = 1) THEN q + 1 ELSE q
              IN  IF m = 2^Precision THEN <<2^(Precision-1), e + k + 1>>
                                     ELSE <<m, e + k>>

FromInt(n) == RN(n, 0)

FLess(a, b) ==
    IF IsZero(b) THEN FALSE
    ELSE IF IsZero(a) THEN TRUE
    ELSE IF a[2] # b[2] THEN a[2] < b[2]
    ELSE a[1] < b[1]

FAdd(a, b) ==
    IF IsNaN(a) \/ IsNaN(b) THEN FNaN
    ELSE IF IsZero(a) THEN b
    ELSE IF IsZero(b) THEN a
    ELSE LET hi == IF a[2] >= b[2] THEN a ELSE b
             lo == IF a[2] >= b[2] THEN b ELSE a
             d  == hi[2] - lo[2]
         IN  IF d > Precision + 1 THEN hi
             ELSE RN(hi[1] * 2^d + lo[1], lo[2])

FMul(a, b) ==
    IF IsNaN(a) \/ IsNaN(b) THEN FNaN
    ELSE IF IsZero(a) \/ IsZero(b) THEN FZero
    ELSE RN(a[1] * b[1], a[2] + b[2])

FDiv(a, b) ==
    IF IsNaN(a) \/ IsNaN(b) \/ IsZero(b) THEN FNaN
    ELSE IF IsZero(a) THEN FZero
    ELSE LET n   == (a[1] * 2^(Precision + 2)) \div b[1]
             rem == (a[1] * 2^(Precision + 2)) % b[1]
             n2  == 2 * n + (IF rem > 0 THEN 1 ELSE 0)
         IN  RN(n2, a[2] - b[2] - (Precision + 3))

\* torch.maximum
FMax(a, b) ==
    IF IsNaN(a) \/ IsNaN(b) THEN FNaN
    ELSE IF FLess(a, b) THEN b ELSE a

\* f[1] + ... + f[n], accumulated left to right
RECURSIVE FSumTo(_, _)
FSumTo(f, n) == IF n = 0 THEN FZero ELSE FAdd(FSumTo(f, n - 1), f[n])

\* the -inf of a masked position
MinusInf == 0 - 1000

ScoreAdd(s, b) == IF s = MinusInf \/ b = MinusInf THEN MinusInf ELSE s + b

\* exp() of an integer, rounded to bfloat16
ExpTable == [x \in (0-16)..3 |->
    CASE x = 0-16 -> <<242, 0-31>> [] x = 0-15 -> <<164, 0-29>>
      [] x = 0-14 -> <<223, 0-28>> [] x = 0-13 -> <<152, 0-26>>
      [] x = 0-12 -> <<206, 0-25>> [] x = 0-11 -> <<140, 0-23>>
      [] x = 0-10 -> <<190, 0-22>> [] x = 0-9  -> <<129, 0-20>>
      [] x = 0-8  -> <<176, 0-19>> [] x = 0-7  -> <<239, 0-18>>
      [] x = 0-6  -> <<162, 0-16>> [] x = 0-5  -> <<221, 0-15>>
      [] x = 0-4  -> <<150, 0-13>> [] x = 0-3  -> <<204, 0-12>>
      [] x = 0-2  -> <<139, 0-10>> [] x = 0-1  -> <<188, 0-9>>
      [] x = 0    -> <<128, 0-7>>  [] x = 1    -> <<174, 0-6>>
      [] x = 2    -> <<236, 0-5>>  [] x = 3    -> <<161, 0-3>>]

FExp(s) == IF s = MinusInf THEN FZero ELSE ExpTable[s]

\* torch.finfo(torch.bfloat16).tiny = 2^-126
eps_value == <<128, 0 - 133>>


FOne == <<128, 0 - 7>>
\* an entry of a 0/1 matrix as a bfloat16 number
MapVal(c) == IF c = 0 THEN FZero ELSE IF c = 1 THEN FOne ELSE FromInt(c)

(***************************************************************************)
(* Module-level configuration, read from the environment at import.        *)
(***************************************************************************)
VARIABLES
    const_norm,    \* VLLM_SOFTMAX_CONST_NORM as read at import
    const_pa,      \* VLLM_SOFTMAX_CONST_PA as read at import
    env            \* the environment and the enabled flags, as they are now

(***************************************************************************)
(* ops.block2batch / ops.batch2block: matmul with the 0/1 block_mapping    *)
(* matrix [block position][sequence] (transposed for block2batch).  A      *)
(* per-block tensor is [i \in 1..nb -> [r \in Rows -> number]], a          *)
(* per-sequence tensor [b \in 1..B -> [r \in Rows -> number]].             *)
(***************************************************************************)
block2batch(tensor, block_mapping) ==
    LET nb == Len(block_mapping)
        B  == Len(block_mapping[1])
    IN  [b \in 1..B |-> [r \in DOMAIN tensor[1] |->
            FSumTo([i \in 1..nb |-> FMul(MapVal(block_mapping[i][b]), tensor[i][r])], nb)]]

batch2block(tensor, block_mapping) ==
    LET nb == Len(block_mapping)
        B  == Len(block_mapping[1])
    IN  [i \in 1..nb |-> [r \in DOMAIN tensor[1] |->
            FSumTo([b \in 1..B |-> FMul(MapVal(block_mapping[i][b]), tensor[b][r])], B)]]

\* sum over the last dimension (the slots of a block)
SumLast(t) == [i \in DOMAIN t |-> [r \in DOMAIN t[i] |-> FSumTo(t[i][r], Len(t[i][r]))]]

\* attn.sub_(c); attn.exp()
ExpShift(attn, c) ==
    [i \in DOMAIN attn |-> [r \in DOMAIN attn[i] |-> [o \in DOMAIN attn[i][r] |->
        FExp(ScoreAdd(attn[i][r][o], 0 - c))]]]

\* block2batch then batch2block of the blocks' sums: every block gets the sum
\* of the sums of the blocks of its sequence
GroupSumsNoReduce(sums, block_mapping) == sums
GroupSums(sums, block_mapping) ==
    batch2block(block2batch(sums, block_mapping), block_mapping)

\* group_sums.add_(eps_value); torch.maximum(block_sum, group_sums)
DenominatorNoEps(sums, block_mapping) ==
    LET g == GroupSums(sums, block_mapping)
    IN  [i \in DOMAIN sums |-> [r \in DOMAIN sums[i] |-> FMax(sums[i][r], g[i][r])]]
Denominator(sums, block_mapping) ==
    LET g == GroupSums(sums, block_mapping)
    IN  [i \in DOMAIN sums |-> [r \in DOMAIN sums[i] |->
            FMax(sums[i][r], FAdd(g[i][r], eps_value))]]

\* matmul_av_op(attn, value): weights times values, summed over the slots
MatmulAV(attn, value) ==
    [i \in DOMAIN attn |-> [r \in DOMAIN attn[i] |->
        FSumTo([o \in DOMAIN attn[i][r] |-> FMul(attn[i][r][o], value[i][r][o])],
               Len(attn[i][r]))]]

pa(attn, value, block_mapping) ==
    LET e    == ExpShift(attn, const_val)
        sums == SumLast(e)
        den  == Denominator(sums, block_mapping)
        w    == [i \in DOMAIN e |-> [r \in DOMAIN e[i] |-> [o \in DOMAIN e[i][r] |->
                    FDiv(e[i][r][o], den[i][r])]]]
    IN  MatmulAV(w, value)

\* a normalisation by the block's own sum, without the sum over the sequence
pipelined_const_pa_local(attn, value, block_mapping) ==
    LET e    == ExpShift(attn, const_val)
        sums == SumLast(e)
        av   == MatmulAV(e, value)
    IN  [i \in DOMAIN av |-> [r \in DOMAIN av[i] |->
            FDiv(av[i][r], FMax(sums[i][r], eps_value))]]

pipelined_const_pa(attn, value, block_mapping) ==
    LET e    == ExpShift(attn, const_val)
        sums == SumLast(e)
        den  == Denominator(sums, block_mapping)
        av   == MatmulAV(e, value)
    IN  [i \in DOMAIN av |-> [r \in DOMAIN av[i] |-> FDiv(av[i][r], den[i][r])]]

(***************************************************************************)
(* ops.pipelined_pa, the default policy: the running maximum of the        *)
(* sequence is subtracted before exp().  Library code; modelled from the   *)
(* description of the running-max policy.                                  *)
(***************************************************************************)
SetMax(S) == CHOOSE m \in S : \A y \in S : y <= m

pipelined_pa(attn, value, block_mapping) ==
    LET nb == Len(block_mapping)
        B  == Len(block_mapping[1])
        same(i, j) == \E b \in 1..B : block_mapping[i][b] = 1 /\ block_mapping[j][b] = 1
        gm == [i \in 1..nb |-> [r \in DOMAIN attn[i] |->
                  SetMax({attn[j][r][o] : j \in {k \in 1..nb : k = i \/ same(i, k)},
                                           o \in DOMAIN attn[i][r]})]]
        e  == [i \in 1..nb |-> [r \in DOMAIN attn[i] |-> [o \in DOMAIN attn[i][r] |->
                  FExp(IF attn[i][r][o] = MinusInf THEN MinusInf
                       ELSE attn[i][r][o] - gm[i][r])]]]
        sums == SumLast(e)
        den  == Denominator(sums, block_mapping)
        av   == MatmulAV(e, value)
    IN  [i \in DOMAIN av |-> [r \in DOMAIN av[i] |-> FDiv(av[i][r], den[i][r])]]

(***************************************************************************)
(* The cache: key_cache and value_cache are                                *)
(* [block \in Blocks -> [slot \in Slots -> [kv head -> number]]].          *)
(***************************************************************************)
Blocks == 0..(NumBlocks - 1)
Slots == 1..BlockSize

\* VLLMKVCache.fetch_from_cache: the blocks of block_list, in its order
\* a gather that returns the blocks last to first
fetch_reversed(cache, blocks) == [i \in 1..Len(blocks) |-> cache[blocks[Len(blocks) + 1 - i]]]
fetch_from_cache(cache, blocks) == [i \in 1..Len(blocks) |-> cache[blocks[i]]]

\* VLLMKVCache.forward (index_put_ without accumulate): every addressed slot
\* ends with the input of one of the tokens that address it; which one is not
\* defined when several do.  The set of the caches the call can leave.
Addressing(b, o, block_indices, block_offsets) ==
    {t \in 1..Len(block_indices) : block_indices[t] = b /\ block_offsets[t] = o}

\* the orders in which the tokens of one call can land
Orders(n) == {p \in [1..n -> 1..n] : \A t, u \in 1..n : t # u => p[t] # p[u]}

\* a write that pairs the values with the slots in the order of landing
WriteInOrderShuffled(input, cache, block_indices, block_offsets, p) ==
    [b \in Blocks |-> [o \in Slots |->
        LET T == Addressing(b, o, block_indices, block_offsets)
        IN  IF T = {} THEN cache[b][o]
            ELSE input[p[CHOOSE t \in T : \A u \in T : p[u] <= p[t]]]]]
WriteInOrder(input, cache, block_indices, block_offsets, p) ==
    [b \in Blocks |-> [o \in Slots |->
        LET T == Addressing(b, o, block_indices, block_offsets)
        IN  IF T = {} THEN cache[b][o]
            ELSE input[CHOOSE t \in T : \A u \in T : p[u] <= p[t]]]]

VLLMKVCacheFirstOnly(input, cache, block_indices, block_offsets) ==
    {WriteInOrder(<<input[1]>>, cache, <<block_indices[1]>>, <<block_offsets[1]>>, <<1>>)}
VLLMKVCache(input, cache, block_indices, block_offsets) ==
    {WriteInOrder(input, cache, block_indices, block_offsets, p) : p \in Orders(Len(input))}

(***************************************************************************)
(* flat_pa: query is [b -> [h \in 0..q_heads-1 -> integer]].               *)
(***************************************************************************)
\* query.unflatten(1, (kv_heads, -1)): head h is row <<h \div G, h % G>>
FlattenHeadInterleaved(r, q_heads, kv_heads) == r[2] * kv_heads + r[1]
FlattenHead(r, q_heads, kv_heads) == r[1] * (q_heads \div kv_heads) + r[2]

\* attn.flatten(1, 2)
UnflattenHead(h, q_heads, kv_heads) ==
    <<h \div (q_heads \div kv_heads), h % (q_heads \div kv_heads)>>

\* attn + block_bias
AddBiasIgnored(score, bias) == score
AddBias(score, bias) == ScoreAdd(score, bias)

\* the policy of flat_pa's if / elif / else
PolicyFromEnv == IF env.VLLM_SOFTMAX_CONST_PA THEN "pipelined_const_pa"
                 ELSE IF env.VLLM_SOFTMAX_CONST_NORM THEN "pa"
                 ELSE "pipelined_pa"
\* the same branches with const_norm asked first
PolicyNormFirst == IF const_norm THEN "pa"
                   ELSE IF const_pa THEN "pipelined_const_pa"
                   ELSE "pipelined_pa"
Policy == IF const_pa THEN "pipelined_const_pa"
          ELSE IF const_norm THEN "pa"
          ELSE "pipelined_pa"
\* 'fp32_softmax' in enabled_flags(), asked inside flat_pa
Fp32Softmax == env.fp32_softmax

\* the rows of the score tensor: heads, or <<kv head, head of the group>>
Rows(q_heads, kv_heads) ==
    IF kv_heads # q_heads
    THEN (0..(kv_heads - 1)) \X (0..((q_heads \div kv_heads) - 1))
    ELSE 0..(q_heads - 1)
KvOf(r, q_heads, kv_heads) == IF kv_heads # q_heads THEN r[1] ELSE r

\* ops.batch2block(scale * query, block_mapping): the query of the sequence
\* of every block
QueryOfBlock(query, block_mapping, scale) ==
    [i \in 1..Len(block_mapping) |-> [h \in DOMAIN query[1] |->
        LET f[b \in 0..Len(query)] ==
               IF b = 0 THEN 0
               ELSE f[b-1] + block_mapping[i][b] * scale * query[b][h]
        IN  f[Len(query)]]]

\* matmul_qk_op(query, key) + block_bias
FlatScores(query, key_cache_, block_list, block_mapping, block_bias, scale) ==
    LET q_heads  == Cardinality(DOMAIN query[1])
        kv_heads == Cardinality(DOMAIN key_cache_[0][1])
        qb  == QueryOfBlock(query, block_mapping, scale)
        key == fetch_from_cache(key_cache_, block_list)
        qOf(i, r) == IF kv_heads # q_heads
                     THEN qb[i][FlattenHead(r, q_heads, kv_heads)] ELSE qb[i][r]
    IN  [i \in 1..Len(block_list) |-> [r \in Rows(q_heads, kv_heads) |-> [o \in Slots |->
            AddBias(qOf(i, r) * key[i][o][KvOf(r, q_heads, kv_heads)], block_bias[i][o])]]]

\* the gathered value blocks, one row per score row
FlatValues(q_heads, value_cache_, block_list) ==
    LET kv_heads == Cardinality(DOMAIN value_cache_[0][1])
        value == fetch_from_cache(value_cache_, block_list)
    IN  [i \in 1..Len(block_list) |-> [r \in Rows(q_heads, kv_heads) |-> [o \in Slots |->
            FromInt(value[i][o][KvOf(r, q_heads, kv_heads)])]]]

flat_pa(query, key_cache_, value_cache_, block_list, block_mapping, block_bias, scale) ==
    LET q_heads  == Cardinality(DOMAIN query[1])
        kv_heads == Cardinality(DOMAIN key_cache_[0][1])
        attn == FlatScores(query, key_cache_, block_list, block_mapping, block_bias, scale)
        val  == FlatValues(q_heads, value_cache_, block_list)
        out  == IF Policy = "pipelined_const_pa"
                THEN pipelined_const_pa(attn, val, block_mapping)
                ELSE IF Policy = "pa" THEN pa(attn, val, block_mapping)
                ELSE pipelined_pa(attn, val, block_mapping)
        ob   == block2batch(out, block_mapping)
    IN  [b \in 1..Len(query) |-> [h \in DOMAIN query[1] |->
            IF kv_heads # q_heads THEN ob[b][UnflattenHead(h, q_heads, kv_heads)]
                                  ELSE ob[b][h]]]

(***************************************************************************)
(* _make_alibi_bias.  An entry is a signed bfloat16 number [neg, mag].     *)
(* The buffer torch.empty() returns holds whatever the allocator left      *)
(* there (garbage) until copy_ fills the first seq_len columns.            *)
(***************************************************************************)
\* the row length of the buffer is rounded up to a multiple of 8
PadTo == 8
PaddedLen(seq_len) == ((seq_len + PadTo - 1) \div PadTo) * PadTo
Signed(d) == [neg |-> d < 0, mag |-> FromInt(IF d < 0 THEN 0 - d ELSE d)]
\* torch.arange(seq_len, dtype=dtype): position k as the dtype holds it
Arange(k) ==
    LET x == FromInt(k) IN IF x[2] >= 0 THEN x[1] * 2 ^ x[2] ELSE x[1] \div 2 ^ (0 - x[2])
\* bias[None, :] - bias[:, None], then
\* torch.empty(1, num_heads, seq_len, padded_len)[:, :, :, :seq_len].copy_(bias)
AlibiBuffer(num_heads, seq_len, garbage) ==
    [h \in 0..(num_heads - 1) |-> [i \in 1..seq_len |-> [j \in 1..PaddedLen(seq_len) |->
        IF j <= seq_len THEN Signed(Arange(j - 1) - Arange(i - 1)) ELSE garbage]]]
\* the tensor the function goes on with: the first seq_len columns
AlibiViewPadded(buffer, seq_len) == buffer
AlibiView(buffer, seq_len) ==
    [h \in DOMAIN buffer |-> [i \in DOMAIN buffer[h] |-> [j \in 1..seq_len |->
        buffer[h][i][j]]]]
HeadKeys(num_heads, num_kv_heads) ==
    IF num_heads # num_kv_heads
    THEN (0..(num_kv_heads - 1)) \X (0..((num_heads \div num_kv_heads) - 1))
    ELSE 0..(num_heads - 1)
make_alibi_bias(alibi_slopes, num_kv_heads, seq_len, garbage) ==
    LET num_heads == Len(alibi_slopes)
        view == AlibiView(AlibiBuffer(num_heads, seq_len, garbage), seq_len)
        \* bias.mul_(alibi_slopes[:, None, None])
        bias == [h \in DOMAIN view |-> [i \in DOMAIN view[h] |-> [j \in DOMAIN view[h][i] |->
                    [neg |-> view[h][i][j].neg,
                     mag |-> FMul(view[h][i][j].mag, alibi_slopes[h + 1])]]]]
    IN  \* bias.unflatten(1, (num_kv_heads, num_heads // num_kv_heads))
        [k \in HeadKeys(num_heads, num_kv_heads) |->
            IF num_heads # num_kv_heads
            THEN bias[k[1] * (num_heads \div num_kv_heads) + k[2]]
            ELSE bias[k]]
\* what a freshly allocated buffer may hold
Garbage == {Signed(7), Signed(0 - 3)}

(***************************************************************************)
(* HPUAttentionImpl and one forward call at a time.                        *)
(***************************************************************************)
VARIABLES
    impl,          \* the fields __init__ sets
    key_cache,     \* the two buffers of the live kv_cache
    value_cache,
    pc,            \* where the call in flight is
    call,          \* its arguments
    entry,         \* the cache when the call was entered
    result,        \* what the call did and returned
    prev,          \* is_prompt and path of the call before
    ncalls,
    kin,           \* inputs of a kernel run
    kout,          \* its outputs
    alibi_runs     \* runs of _make_alibi_bias so far, by seq_len

vars == <<const_norm, const_pa, impl, key_cache, value_cache, pc, call, entry,
          result, prev, ncalls, kin, kout, env, alibi_runs>>

KvHeads(n) == 0..(n - 1)
EmptyCache(n) == [b \in Blocks |-> [o \in Slots |-> [kv \in KvHeads(n) |-> 0]]]

\* the slopes of ALiBi: 2^-(h+1) for head h
SlopeOf(h) == <<2 ^ (Precision - 1), 0 - (Precision + h)>>

\* what os.environ and enabled_flags() hold when the module is imported and
\* the instance constructed, and what they hold after a change
EnvOf(cn, cp, fsdpa, fp32) ==
    [VLLM_SOFTMAX_CONST_NORM |-> cn, VLLM_SOFTMAX_CONST_PA |-> cp,
     VLLM_SOFTMAX_CONST_VAL |-> IF fp32 THEN const_val + 1 ELSE const_val,
     fsdpa |-> fsdpa, fp32_softmax |-> fp32]
Changed(e) ==
    EnvOf(~e.VLLM_SOFTMAX_CONST_NORM, ~e.VLLM_SOFTMAX_CONST_PA, ~e.fsdpa, ~e.fp32_softmax)
NoRuns == [len \in 1..MaxTokens |-> 0]

\* the instances the runs start from: attention type, flags, policy, heads
Configs ==
    { [attn_type |-> "DECODER", prefill_use_fusedsdpa |-> FALSE, num_heads |-> 1,
       num_kv_heads |-> 1, scale |-> 1, cn |-> FALSE, cp |-> FALSE,
       alibi_slopes |-> "None"],
      [attn_type |-> "DECODER", prefill_use_fusedsdpa |-> FALSE, num_heads |-> 1,
       num_kv_heads |-> 1, scale |-> 1, cn |-> FALSE, cp |-> FALSE,
       alibi_slopes |-> <<SlopeOf(0)>>],
      [attn_type |-> "DECODER", prefill_use_fusedsdpa |-> TRUE, num_heads |-> 1,
       num_kv_heads |-> 1, scale |-> 1, cn |-> FALSE, cp |-> TRUE,
       alibi_slopes |-> "None"],
      [attn_type |-> "DECODER", prefill_use_fusedsdpa |-> FALSE, num_heads |-> 2,
       num_kv_heads |-> 1, scale |-> 1, cn |-> TRUE, cp |-> FALSE,
       alibi_slopes |-> "None"],
      [attn_type |-> "ENCODER_DECODER", prefill_use_fusedsdpa |-> FALSE, num_heads |-> 1,
       num_kv_heads |-> 1, scale |-> 1, cn |-> TRUE, cp |-> TRUE,
       alibi_slopes |-> "None"] }

NoResult == [status |-> "none", path |-> "none", wrote |-> FALSE, shape |-> <<>>,
             output |-> <<>>, kread |-> <<>>, vread |-> <<>>, bias |-> "none",
             alibi |-> <<>>, kernel_args |-> <<>>, softmax_dtype |-> "none",
             policy |-> "none", error |-> "none"]
NoCall == [n |-> 0]
NoPrev == [valid |-> FALSE, is_prompt |-> FALSE, path |-> "none"]
NoKernel == [stage |-> "none"]

Init ==
    /\ \E c \in Configs :
          /\ impl = [attn_type |-> c.attn_type,
                     prefill_use_fusedsdpa |-> c.prefill_use_fusedsdpa,
                     num_heads |-> c.num_heads, num_kv_heads |-> c.num_kv_heads,
                     scale |-> c.scale, alibi_slopes |-> c.alibi_slopes]
          /\ env = EnvOf(c.cn, c.cp, c.prefill_use_fusedsdpa, FALSE)
          /\ const_norm = c.cn
          /\ const_pa = c.cp
          /\ key_cache = EmptyCache(c.num_kv_heads)
          /\ value_cache = EmptyCache(c.num_kv_heads)
    /\ pc = "idle"
    /\ call = NoCall
    /\ entry = <<key_cache, value_cache>>
    /\ result = NoResult
    /\ prev = NoPrev
    /\ ncalls = 0
    /\ kin = NoKernel
    /\ kout = NoKernel
    /\ alibi_runs = NoRuns

(***************************************************************************)
(* The arguments a caller passes.  Token t of n lands in the slot          *)
(* SlotOf(start, t, alias): consecutive slots from start, or, for padding  *)
(* tokens, all in the slot start.                                          *)
(***************************************************************************)
SlotNo(b, o) == b * BlockSize + (o - 1)
SlotOf(start, t, alias) ==
    LET k == IF alias THEN start ELSE (start + t - 1) % (NumBlocks * BlockSize)
    IN  <<k \div BlockSize, (k % BlockSize) + 1>>

TokenKey(p, t, kv) == 1 + ((p + t + kv) % 2)
TokenValue(p, t, kv) == 2 + ((p + t + kv) % 2)
TokenQuery(p, t, h) == 1 + ((p + t + h + 1) % 2)

\* the block tables of a decode step: every sequence reads the block it
\* writes ("own"), or every sequence reads the block of sequence 1 ("shared")
DecodeBlockList(layout, block_indices) ==
    [i \in 1..Len(block_indices) |->
        IF layout = "own" THEN block_indices[i] ELSE block_indices[1]]
OneHot(n) == [i \in 1..n |-> [b \in 1..n |-> IF i = b THEN 1 ELSE 0]]
\* "usage": a sequence sees its block up to the slot of its own new token
DecodeBias(mask, block_offsets) ==
    [i \in 1..Len(block_offsets) |-> [o \in Slots |->
        IF mask = "usage" /\ o > block_offsets[i] THEN MinusInf ELSE 0]]
\* the cross block tables number their blocks apart from the self-attention ones
Cross(b) == (b + 1) % NumBlocks

\* the bias of a prompt run: causal inside a sequence; in merged prefill the
\* n tokens are n segments of length 1 and the bias keeps them apart.  An
\* entry is the mask (0 or MinusInf) and the finite part added to it.
PrefillBias(n, merged) ==
    [q \in 1..n |-> [k \in 1..n |->
        [mask  |-> IF (merged /\ k = q) \/ (~merged /\ k <= q) THEN 0 ELSE MinusInf,
         alibi |-> [neg |-> FALSE, mag |-> FZero]]]]
SeqLens(is_prompt, n, merged) ==
    IF is_prompt /\ ~merged THEN <<n>> ELSE [i \in 1..n |-> 1]

Metadata(is_prompt, n, start, alias, block_list_set, attn_bias_set, merged, layout, mask) ==
    LET bi == [t \in 1..n |-> SlotOf(start, t, alias)[1]]
        bo == [t \in 1..n |-> SlotOf(start, t, alias)[2]]
        bl == IF is_prompt THEN <<bi[1]>> ELSE DecodeBlockList(layout, bi)
    IN  [is_prompt |-> is_prompt,
         enable_merged_prefill |-> merged,
         block_indices |-> bi,
         block_offsets |-> bo,
         block_list_set |-> block_list_set,
         block_list |-> bl,
         block_mapping |-> OneHot(n),
         attn_bias_set |-> attn_bias_set,
         attn_bias |-> IF is_prompt THEN PrefillBias(n, merged) ELSE DecodeBias(mask, bo),
         seq_lens_tensor |-> SeqLens(is_prompt, n, merged),
         cross_block_indices |-> [t \in 1..n |-> Cross(bi[t])],
         cross_block_offsets |-> bo,
         cross_block_list |-> [i \in 1..Len(bl) |-> Cross(bl[i])],
         cross_block_mapping |-> OneHot(n),
         cross_attn_bias |-> DecodeBias(mask, bo)]

PrefillMetadata(n, start, alias) ==
    {Metadata(TRUE, n, start, alias, bls, abs, mg, "own", "none") :
        bls \in BOOLEAN, abs \in BOOLEAN, mg \in BOOLEAN}
DecodeMetadata(n, start, alias) ==
    {Metadata(FALSE, n, start, alias, TRUE, TRUE, FALSE, ly, mk) :
        ly \in {"own", "shared"}, mk \in {"none", "usage"}}
    \cup {Metadata(FALSE, n, start, alias, TRUE, FALSE, FALSE, "own", "none")}

CallWith(n, live, p, kn, vn, md) ==
    [n |-> n,
     live |-> live,
     key_none |-> kn,
     value_none |-> vn,
     query |-> [t \in 1..n |-> [h \in 0..(impl.num_heads - 1) |-> TokenQuery(p, t, h)]],
     key   |-> [t \in 1..n |-> [kv \in KvHeads(impl.num_kv_heads) |-> TokenKey(p, t, kv)]],
     value |-> [t \in 1..n |-> [kv \in KvHeads(impl.num_kv_heads) |-> TokenValue(p, t, kv)]],
     shape |-> IF md.is_prompt THEN <<1, n, impl.num_heads>> ELSE <<n, 1, impl.num_heads>>,
     md |-> md,
     \* the metadata as the caller built them
     given |-> md]

\* padding tokens (alias) all land in slot 0 of block 0
MetadataAt(n, s) ==
    UNION {PrefillMetadata(n, s, a) \cup DecodeMetadata(n, s, a) :
              a \in (IF n > 1 /\ s = 0 THEN BOOLEAN ELSE {FALSE})}
MetadataOf(n) ==
    UNION {MetadataAt(n, s) : s \in 0..(NumBlocks * BlockSize - 1)}

\* key and value are tensors; the encoder-decoder caller may pass None for
\* either (cross-attention decode passes None for both)
CallsOf(n) ==
    {CallWith(n, live, ncalls + 1, FALSE, FALSE, md) :
        live \in BOOLEAN, md \in MetadataOf(n)}
    \cup {CallWith(1, live, ncalls + 1, kn, vn, md) :
            live \in (IF impl.attn_type = "ENCODER_DECODER" THEN BOOLEAN ELSE {}),
            kn \in BOOLEAN, vn \in BOOLEAN,
            md \in PrefillMetadata(1, 0, FALSE) \cup DecodeMetadata(1, 0, FALSE)}

Calls == UNION {CallsOf(n) : n \in 1..MaxTokens}

(***************************************************************************)
(* HPUAttentionImpl.forward, self-attention (attn_type DECODER).           *)
(***************************************************************************)
machine == <<impl, const_norm, const_pa, kin, kout, env>>

Raised(r) == [r EXCEPT !.status = "raised"]

\* kv_cache is not None and isinstance(kv_cache, tuple)
HasLiveCacheAlways(c) == TRUE
HasLiveCache(c) == c.live

\* if attn_metadata.is_prompt
TakesPromptBranchNoPrefix(md) == md.is_prompt /\ ~md.block_list_set
TakesPromptBranch(md) == md.is_prompt

\* the cache the attention computation is handed: the one the write returned
AttendCacheBeforeWrite == entry
AttendCache == <<key_cache, value_cache>>

\* the call, up to the dispatch on attn_type
ForwardEnter ==
    /\ pc = "idle"
    /\ ncalls < MaxCalls
    /\ \E c \in Calls : call' = c
    /\ ncalls' = ncalls + 1
    /\ pc' = IF impl.attn_type = "ENCODER_DECODER" THEN "ed_check" ELSE "write"
    /\ UNCHANGED <<key_cache, value_cache, entry, result, prev, machine, alibi_runs>>

\* self.k_cache(key, ...) and self.v_cache(value, ...) at the caller's slots
StoreKV(block_indices, block_offsets) ==
    /\ \E kc \in VLLMKVCache(call.key, key_cache, block_indices, block_offsets) :
          key_cache' = kc
    /\ \E vc \in VLLMKVCache(call.value, value_cache, block_indices, block_offsets) :
          value_cache' = vc
    /\ result' = [result EXCEPT !.wrote = TRUE]

WriteCache ==
    /\ pc = "write"
    /\ IF HasLiveCache(call)
       THEN StoreKV(call.md.block_indices, call.md.block_offsets)
       ELSE UNCHANGED <<key_cache, value_cache, result>>
    /\ pc' = "attend"
    /\ UNCHANGED <<call, entry, prev, ncalls, machine, alibi_runs>>

\* attn_bias.tile((1, self.num_kv_heads, 1, 1)): the bias once per kv head,
\* in storage of its own
TileView(bias, num_kv_heads) ==
    [tensor |-> [kv \in 0..(num_kv_heads - 1) |-> bias],
     storage |-> "attn_metadata.attn_bias"]
Tile(bias, num_kv_heads) ==
    [tensor |-> [kv \in 0..(num_kv_heads - 1) |-> bias], storage |-> "new"]
\* attn_bias.add_(position_bias), in place in the tiled tensor
AddPositionBias(tiled, position_bias) ==
    [k \in DOMAIN tiled |-> [q \in DOMAIN tiled[k] |-> [j \in DOMAIN tiled[k][q] |->
        \* the finite part of a bias the caller built is 0
        [mask |-> tiled[k][q][j].mask, alibi |-> position_bias[k][q][j]]]]]
UsesAlibi == ~impl.prefill_use_fusedsdpa /\ impl.alibi_slopes # "None"
\* add_ needs a position bias of the tiled tensor's rank: the unflattened
\* bias of grouped heads has one dimension more
AlibiShapesFit == impl.num_heads = impl.num_kv_heads
PositionBias(md, garbage) ==
    make_alibi_bias(impl.alibi_slopes, impl.num_kv_heads, Len(md.attn_bias[1]), garbage)

\* the arguments the dense kernels are called with (<<>> stands for None)
prompt_attention(attn_bias, valid_seq_lengths) ==
    [kernel |-> "ops.prompt_attention", attn_bias |-> attn_bias, is_causal |-> "unset",
     valid_seq_lengths |-> valid_seq_lengths]
\* prompt_fsdpa calls fsdpa_op(query, key, value, attn_bias, 0.0, False, scale,
\* softmax_mode, recompute_mode, None, 'right')
prompt_fsdpa(attn_bias, valid_seq_lengths) ==
    [kernel |-> "fsdpa_op", attn_bias |-> attn_bias, is_causal |-> FALSE,
     valid_seq_lengths |-> <<>>]

\* the prompt run with no block_list: the bias and the kernel
DensePrefill(md, garbage) ==
    IF ~impl.prefill_use_fusedsdpa /\ ~md.attn_bias_set
    THEN Raised(result)
    ELSE IF UsesAlibi /\ ~AlibiShapesFit
    THEN [Raised(result) EXCEPT !.alibi = PositionBias(md, garbage)]
    ELSE LET attn_bias ==
                 IF ~impl.prefill_use_fusedsdpa
                 THEN IF UsesAlibi
                      THEN AddPositionBias(Tile(md.attn_bias, impl.num_kv_heads).tensor,
                                           PositionBias(md, garbage))
                      ELSE md.attn_bias
                 ELSE IF md.enable_merged_prefill /\ md.attn_bias_set THEN md.attn_bias
                 ELSE <<>>
         IN  [result EXCEPT
                !.status = "ok",
                !.path = IF md.enable_merged_prefill /\ impl.prefill_use_fusedsdpa
                         THEN "prompt_fsdpa" ELSE "prompt_attention",
                !.bias = IF ~impl.prefill_use_fusedsdpa THEN "attn_bias"
                         ELSE IF md.enable_merged_prefill
                              THEN (IF md.attn_bias_set THEN "attn_bias" ELSE "none")
                              ELSE "none",
                !.alibi = IF UsesAlibi THEN PositionBias(md, garbage) ELSE <<>>,
                !.kernel_args =
                    IF md.enable_merged_prefill /\ impl.prefill_use_fusedsdpa
                    THEN prompt_fsdpa(attn_bias, md.seq_lens_tensor)
                    ELSE prompt_attention(attn_bias, md.seq_lens_tensor),
                !.shape = call.shape]

\* attn_metadata after the prompt run: add_ writes into the tiled tensor
DensePrefillMetadata(md, garbage) ==
    IF /\ UsesAlibi /\ AlibiShapesFit /\ md.attn_bias_set
       /\ Tile(md.attn_bias, impl.num_kv_heads).storage # "new"
    THEN [md EXCEPT !.attn_bias =
             AddPositionBias(Tile(md.attn_bias, impl.num_kv_heads).tensor,
                             PositionBias(md, garbage))[0]]
    ELSE md

\* HPUPagedAttention.forward_prefix: reads the blocks of block_list
PrefixPrefill(md) ==
    IF ~HasLiveCache(call)
    THEN Raised(result)
    ELSE [result EXCEPT
            !.status = "ok",
            !.path = "forward_prefix",
            !.kread = fetch_from_cache(AttendCache[1], md.block_list),
            !.vread = fetch_from_cache(AttendCache[2], md.block_list),
            !.bias = IF md.attn_bias_set THEN "attn_bias" ELSE "none",
            !.shape = call.shape]

\* the decoding run
Decode(md) ==
    IF ~HasLiveCache(call)
    THEN Raised(result)
    ELSE IF ~md.attn_bias_set
    THEN [Raised(result) EXCEPT
            !.path = "flat_pa",
            !.kread = fetch_from_cache(AttendCache[1], md.block_list),
            !.vread = fetch_from_cache(AttendCache[2], md.block_list)]
    ELSE [result EXCEPT
            !.status = "ok",
            !.path = "flat_pa",
            !.kread = fetch_from_cache(AttendCache[1], md.block_list),
            !.vread = fetch_from_cache(AttendCache[2], md.block_list),
            !.bias = "attn_bias",
            !.policy = Policy,
            !.softmax_dtype = IF Fp32Softmax THEN "float32" ELSE "bfloat16",
            !.output = flat_pa(call.query, AttendCache[1], AttendCache[2], md.block_list,
                               md.block_mapping, md.attn_bias, impl.scale),
            !.shape = <<call.shape[1], call.shape[2], impl.num_heads>>]

Attend ==
    /\ pc = "attend"
    /\ \E garbage \in (IF UsesAlibi /\ call.md.is_prompt THEN Garbage ELSE {Signed(0)}) :
          /\ result' = IF TakesPromptBranch(call.md)
                       THEN IF ~call.md.block_list_set
                            THEN DensePrefill(call.md, garbage)
                            ELSE PrefixPrefill(call.md)
                       ELSE Decode(call.md)
          /\ call' = IF call.md.is_prompt /\ ~call.md.block_list_set
                     THEN [call EXCEPT !.md = DensePrefillMetadata(call.md, garbage)]
                     ELSE call
    /\ pc' = "done"
    /\ UNCHANGED <<key_cache, value_cache, entry, prev, ncalls, machine, alibi_runs>>

(***************************************************************************)
(* HPUAttentionImpl.forward_encoder_decoder.                               *)
(***************************************************************************)
\* what the entry of forward_encoder_decoder raises: key.shape of a prompt
\* run whose key is None, then the assertions on key and value
EDEntryErrorNone(c) == "none"
EDEntryError(c) ==
    IF c.md.is_prompt /\ c.key_none THEN "AttributeError"
    ELSE IF c.key_none # c.value_none THEN "AssertionError"
    ELSE "none"

EDCheck ==
    /\ pc = "ed_check"
    /\ IF EDEntryError(call) # "none"
       THEN result' = [Raised(result) EXCEPT !.error = EDEntryError(call)] /\ pc' = "done"
       ELSE result' = result /\ pc' = "ed_write"
    /\ UNCHANGED <<key_cache, value_cache, call, entry, prev, ncalls, machine, alibi_runs>>

\* the block tables forward_encoder_decoder works with
SelfTables(md) ==
    [block_indices |-> md.block_indices, block_offsets |-> md.block_offsets,
     block_list |-> md.block_list, block_mapping |-> md.block_mapping,
     attn_bias |-> md.attn_bias, bias_name |-> "attn_bias"]
CrossTables(md) ==
    [block_indices |-> md.cross_block_indices, block_offsets |-> md.cross_block_offsets,
     block_list |-> md.cross_block_list, block_mapping |-> md.cross_block_mapping,
     attn_bias |-> md.cross_attn_bias, bias_name |-> "cross_attn_bias"]

EDWriteCache ==
    /\ pc = "ed_write"
    /\ IF HasLiveCache(call) /\ ~call.key_none /\ ~call.value_none
       THEN StoreKV(CrossTables(call.md).block_indices, CrossTables(call.md).block_offsets)
       ELSE UNCHANGED <<key_cache, value_cache, result>>
    /\ pc' = "ed_attend"
    /\ UNCHANGED <<call, entry, prev, ncalls, machine, alibi_runs>>

\* HPUPagedAttention.forward_decode: the paged decode over the cross tables
forward_decode(query, key_cache_, value_cache_, block_list, block_mapping, block_bias, scale) ==
    flat_pa(query, key_cache_, value_cache_, block_list, block_mapping, block_bias, scale)

EDDecode(md) ==
    LET t == CrossTables(md) IN
    IF ~HasLiveCache(call)
    THEN Raised(result)
    ELSE IF ~md.attn_bias_set
    THEN [Raised(result) EXCEPT
            !.path = "forward_decode",
            !.kread = fetch_from_cache(AttendCache[1], t.block_list),
            !.vread = fetch_from_cache(AttendCache[2], t.block_list)]
    ELSE [result EXCEPT
            !.status = "ok",
            !.path = "forward_decode",
            !.kread = fetch_from_cache(AttendCache[1], t.block_list),
            !.vread = fetch_from_cache(AttendCache[2], t.block_list),
            !.bias = t.bias_name,
            !.policy = Policy,
            !.softmax_dtype = IF Fp32Softmax THEN "float32" ELSE "bfloat16",
            !.output = forward_decode(call.query, AttendCache[1], AttendCache[2],
                                      t.block_list, t.block_mapping, t.attn_bias,
                                      impl.scale),
            !.shape = <<call.shape[1], call.shape[2], impl.num_heads>>]

EDAttend ==
    /\ pc = "ed_attend"
    /\ result' = IF TakesPromptBranch(call.md)
                 THEN [result EXCEPT !.status = "ok", !.path = "prompt_attention",
                                     !.bias = "zeros", !.shape = call.shape,
                                     !.kernel_args = prompt_attention("zeros", <<>>)]
                 ELSE EDDecode(call.md)
    /\ pc' = "done"
    /\ UNCHANGED <<key_cache, value_cache, call, entry, prev, ncalls, machine, alibi_runs>>

\* return output.view(...), or the exception leaves the call
ForwardReturn ==
    /\ pc = "done"
    /\ pc' = "idle"
    /\ prev' = IF result.path # "none"
               THEN [valid |-> TRUE, is_prompt |-> call.md.is_prompt, path |-> result.path]
               ELSE prev
    /\ call' = NoCall
    /\ result' = NoResult
    /\ entry' = <<key_cache, value_cache>>
    /\ alibi_runs' = IF result.alibi # <<>>
                     THEN [alibi_runs EXCEPT ![call.n] = @ + 1]
                     ELSE alibi_runs
    /\ UNCHANGED <<key_cache, value_cache, ncalls, machine>>

\* between two calls the environment variables and the enabled flags change
EnvChange ==
    /\ pc = "idle"
    /\ ncalls >= 1 /\ ncalls < MaxCalls
    /\ ~env.fp32_softmax
    /\ env' = Changed(env)
    /\ UNCHANGED <<const_norm, const_pa, impl, key_cache, value_cache, pc, call, entry,
                   result, prev, ncalls, kin, kout, alibi_runs>>

Next ==
    \/ ForwardEnter
    \/ ForwardReturn
    \/ EnvChange
    \/ WriteCache
    \/ Attend
    \/ EDCheck
    \/ EDWriteCache
    \/ EDAttend

Spec == Init /\ [][Next]_vars

(***************************************************************************)
(* The decode kernels as functions: the inputs are drawn by KernelInit and *)
(* the actions apply pa, pipelined_const_pa and flat_pa to them.           *)
(***************************************************************************)
\* <<num_heads, num_kv_heads>>
HeadConfigs == {<<1, 1>>, <<2, 2>>, <<2, 1>>, <<4, 2>>}

PatternKeys(n) == [b \in Blocks |-> [o \in Slots |-> [kv \in KvHeads(n) |-> (b + o + kv) % 3]]]
PatternValues(n) ==
    [b \in Blocks |-> [o \in Slots |-> [kv \in KvHeads(n) |-> 1 + ((2 * b + o + kv) % 3)]]]

\* block_mapping of nb blocks over two sequences: block i belongs to owner[i]
MappingOf(owner) == [i \in 1..Len(owner) |-> [b \in 1..2 |-> IF owner[i] = b THEN 1 ELSE 0]]
\* block_bias: the slots of block i beyond usage[i] are masked
BiasOf(usage) == [i \in 1..Len(usage) |-> [o \in Slots |->
                     IF o > usage[i] THEN MinusInf ELSE 0]]

KernelInputs(nb) ==
    {[query |-> [b \in 1..2 |-> [h \in 0..(impl.num_heads - 1) |-> 1 + ((q + b + h) % 2)]],
      block_list |-> bl,
      block_mapping |-> MappingOf(owner),
      block_bias |-> BiasOf(usage),
      stage |-> "drawn"] :
        q \in 1..2, bl \in [1..nb -> Blocks], owner \in [1..nb -> 1..2],
        usage \in [1..nb -> {0, 1, BlockSize}]}

KernelInit ==
    /\ \E hc \in HeadConfigs :
          /\ impl = [attn_type |-> "DECODER", prefill_use_fusedsdpa |-> FALSE,
                     num_heads |-> hc[1], num_kv_heads |-> hc[2], scale |-> 1,
                     alibi_slopes |-> "None"]
          /\ key_cache = PatternKeys(hc[2])
          /\ value_cache = PatternValues(hc[2])
    /\ const_norm \in BOOLEAN
    /\ const_pa \in BOOLEAN
    /\ pc = "kernel"
    /\ call = NoCall
    /\ entry = <<key_cache, value_cache>>
    /\ result = NoResult
    /\ prev = NoPrev
    /\ ncalls = 0
    /\ kin \in UNION {KernelInputs(nb) : nb \in 1..MaxBlockList}
    /\ kout = NoKernel
    /\ env = EnvOf(const_norm, const_pa, FALSE, FALSE)
    /\ alibi_runs = NoRuns

KernelScores == FlatScores(kin.query, key_cache, kin.block_list, kin.block_mapping,
                           kin.block_bias, impl.scale)
KernelValues == FlatValues(impl.num_heads, value_cache, kin.block_list)

\* pa and pipelined_const_pa on the same scores, values and block_mapping
ApplyNormalisations ==
    /\ pc = "kernel"
    /\ kout = NoKernel
    /\ kout' = [stage |-> "normalised",
                sums |-> SumLast(ExpShift(KernelScores, const_val)),
                den  |-> Denominator(SumLast(ExpShift(KernelScores, const_val)),
                                     kin.block_mapping),
                pa   |-> pa(KernelScores, KernelValues, kin.block_mapping),
                pipelined_const_pa |->
                    pipelined_const_pa(KernelScores, KernelValues, kin.block_mapping)]
    /\ UNCHANGED <<const_norm, const_pa, impl, key_cache, value_cache, pc, call, entry,
                   result, prev, ncalls, kin, env, alibi_runs>>

\* the block2batch / batch2block round trip on a per-block tensor
ApplyRoundTrip ==
    /\ pc = "kernel"
    /\ kout = NoKernel
    /\ kout' = [stage |-> "round_trip",
                sums |-> SumLast(ExpShift(KernelScores, const_val)),
                group_sums |-> GroupSums(SumLast(ExpShift(KernelScores, const_val)),
                                         kin.block_mapping)]
    /\ UNCHANGED <<const_norm, const_pa, impl, key_cache, value_cache, pc, call, entry,
                   result, prev, ncalls, kin, env, alibi_runs>>

ApplyFlatPa ==
    /\ pc = "kernel"
    /\ kout = NoKernel
    /\ kout' = [stage |-> "flat_pa",
                key   |-> fetch_from_cache(key_cache, kin.block_list),
                value |-> fetch_from_cache(value_cache, kin.block_list),
                attn  |-> KernelScores,
                output |-> flat_pa(kin.query, key_cache, value_cache, kin.block_list,
                                   kin.block_mapping, kin.block_bias, impl.scale)]
    /\ UNCHANGED <<const_norm, const_pa, impl, key_cache, value_cache, pc, call, entry,
                   result, prev, ncalls, kin, env, alibi_runs>>

KernelNext ==
    \/ ApplyNormalisations
    \/ ApplyRoundTrip
    \/ ApplyFlatPa

KernelSpec == KernelInit /\ [][KernelNext]_vars

(***************************************************************************)
(* _make_alibi_bias, __init__ and one cache write as functions: UnitInit   *)
(* draws the arguments and the actions apply the function to them.         *)
(***************************************************************************)
MaxSeqLen == 3
\* the shortest sequence with a position bfloat16 does not hold exactly
LongLen == 2 ^ Precision + 2
\* a slope that is no power of two: 2^-0.5 in bfloat16
OddSlope == <<2 ^ (Precision - 1) + 53, 0 - Precision>>
SlopeLists == {<<SlopeOf(0)>>, <<OddSlope>>, <<SlopeOf(0), SlopeOf(1)>>,
               <<OddSlope, SlopeOf(1)>>}

AlibiInputs ==
    {[kind |-> "alibi", alibi_slopes |-> sl, num_kv_heads |-> kv, seq_len |-> len] :
        sl \in SlopeLists, kv \in 1..2, len \in 1..MaxSeqLen}
    \cup {[kind |-> "alibi", alibi_slopes |-> <<OddSlope>>, num_kv_heads |-> 1,
           seq_len |-> LongLen]}

\* HPUPagedAttention.get_supported_head_sizes()
SupportedHeadSizes == {64, 80, 96, 112, 128, 256}
AttentionTypes == {"DECODER", "ENCODER", "ENCODER_DECODER", "ENCODER_ONLY"}

\* alibi_slopes=None
NoSlopes == <<>>
InitInputs ==
    {[kind |-> "init", num_heads |-> nh, num_kv_heads |-> kv, head_size |-> hs,
      alibi_slopes |-> al, fsdpa |-> f, attn_type |-> at] :
        nh \in 1..3, kv \in 1..2, hs \in {64, 100},
        al \in {NoSlopes, <<SlopeOf(0)>>}, f \in BOOLEAN, at \in AttentionTypes}

\* HPUAttentionImpl.__init__ without its checks
InitUnchecked(a) ==
    [raised |-> "none",
     instance |-> [attn_type |-> a.attn_type, prefill_use_fusedsdpa |-> a.fsdpa,
                   num_heads |-> a.num_heads, num_kv_heads |-> a.num_kv_heads,
                   head_size |-> a.head_size, scale |-> 1,
                   alibi_slopes |-> a.alibi_slopes]]
\* HPUAttentionImpl.__init__: the checks in the order the code makes them
HPUAttentionImplInit(a) ==
    IF a.num_heads % a.num_kv_heads # 0
    THEN [raised |-> "AssertionError", instance |-> "None"]
    ELSE IF a.fsdpa /\ a.alibi_slopes # NoSlopes
    THEN [raised |-> "AssertionError", instance |-> "None"]
    ELSE IF a.head_size \notin SupportedHeadSizes
    THEN [raised |-> "ValueError", instance |-> "None"]
    ELSE IF a.attn_type # "DECODER" /\ a.attn_type # "ENCODER_DECODER"
    THEN [raised |-> "NotImplementedError", instance |-> "None"]
    ELSE InitUnchecked(a)

\* the values and the (block index, block offset) pairs of one cache write
WriteInputs ==
    {[kind |-> "write", input |-> in, block_indices |-> bi, block_offsets |-> bo] :
        in \in UNION {[1..n -> {[kv \in KvHeads(1) |-> v] : v \in 1..2}] : n \in 1..3},
        bi \in UNION {[1..n -> Blocks] : n \in 1..2},
        bo \in UNION {[1..n -> Slots] : n \in 1..2}}

\* cache.index_put_((block_indices, block_offsets), input): input is
\* broadcast to the number of index pairs when it holds one value, and the
\* write raises when it holds another number of values than pairs
IndexPut(input, cache, block_indices, block_offsets) ==
    IF Len(input) = Len(block_indices)
    THEN [raised |-> FALSE,
          caches |-> VLLMKVCache(input, cache, block_indices, block_offsets)]
    ELSE IF Len(input) = 1
    THEN [raised |-> FALSE,
          caches |-> VLLMKVCache([t \in 1..Len(block_indices) |-> input[1]], cache,
                                 block_indices, block_offsets)]
    ELSE [raised |-> TRUE, caches |-> {cache}]

UnitInit ==
    /\ impl = [attn_type |-> "DECODER", prefill_use_fusedsdpa |-> FALSE,
               num_heads |-> 1, num_kv_heads |-> 1, scale |-> 1,
               alibi_slopes |-> "None"]
    /\ key_cache = EmptyCache(1)
    /\ value_cache = EmptyCache(1)
    /\ const_norm = FALSE
    /\ const_pa = FALSE
    /\ env = EnvOf(const_norm, const_pa, FALSE, FALSE)
    /\ pc = "unit"
    /\ call = NoCall
    /\ entry = <<key_cache, value_cache>>
    /\ result = NoResult
    /\ prev = NoPrev
    /\ ncalls = 0
    /\ kin \in AlibiInputs \cup InitInputs
               \cup {w \in WriteInputs : Len(w.block_indices) = Len(w.block_offsets)}
    /\ kout = NoKernel
    /\ alibi_runs = NoRuns

\* two calls of _make_alibi_bias with the same arguments, each in a buffer
\* of its own
ApplyAlibi ==
    /\ pc = "unit"
    /\ kin.kind = "alibi"
    /\ kout = NoKernel
    /\ Len(kin.alibi_slopes) % kin.num_kv_heads = 0
    /\ \E g1, g2 \in Garbage :
          kout' = [stage |-> "alibi",
                   first  |-> make_alibi_bias(kin.alibi_slopes, kin.num_kv_heads,
                                              kin.seq_len, g1),
                   second |-> make_alibi_bias(kin.alibi_slopes, kin.num_kv_heads,
                                              kin.seq_len, g2)]
    /\ UNCHANGED <<const_norm, const_pa, impl, key_cache, value_cache, pc, call, entry,
                   result, prev, ncalls, kin, env, alibi_runs>>

Construct ==
    /\ pc = "unit"
    /\ kin.kind = "init"
    /\ kout = NoKernel
    /\ kout' = [stage |-> "init", made |-> HPUAttentionImplInit(kin)]
    /\ UNCHANGED <<const_norm, const_pa, impl, key_cache, value_cache, pc, call, entry,
                   result, prev, ncalls, kin, env, alibi_runs>>

ApplyWrite ==
    /\ pc = "unit"
    /\ kin.kind = "write"
    /\ kout = NoKernel
    /\ LET w == IndexPut(kin.input, key_cache, kin.block_indices, kin.block_offsets)
       IN  /\ key_cache' \in w.caches
           /\ kout' = [stage |-> "write", raised |-> w.raised]
    /\ UNCHANGED <<const_norm, const_pa, impl, value_cache, pc, call, entry,
                   result, prev, ncalls, kin, env, alibi_runs>>

UnitNext ==
    \/ ApplyAlibi
    \/ Construct
    \/ ApplyWrite

UnitSpec == UnitInit /\ [][UnitNext]_vars

(***************************************************************************)
(* Two decode calls in flight on one kv_cache.  forward takes no lock: the *)
(* cache writes and the block reads of the two calls interleave freely.    *)
(* A call writes its key, writes its value, fetches the key blocks of its  *)
(* block_list, fetches the value blocks and attends.                       *)
(***************************************************************************)
InFlight == 1..2

\* the decode call c: one token into slot <<wb, wo>>, block_list <<rb>>
ConcCall(c, wb, wo, rb) ==
    [query |-> <<[h \in 0..0 |-> TokenQuery(c, 1, h)]>>,
     key   |-> <<[kv \in KvHeads(1) |-> TokenKey(c, 1, kv) + 2 * c]>>,
     value |-> <<[kv \in KvHeads(1) |-> TokenValue(c, 1, kv) + 2 * c]>>,
     block_indices |-> <<wb>>,
     block_offsets |-> <<wo>>,
     block_list |-> <<rb>>,
     block_mapping |-> OneHot(1),
     attn_bias |-> DecodeBias("none", <<wo>>)]

ConcInputs ==
    {[kind |-> "conc",
      calls |-> <<ConcCall(1, w[1], o[1], r[1]), ConcCall(2, w[2], o[2], r[2])>>] :
        w \in [InFlight -> Blocks], o \in [InFlight -> Slots], r \in [InFlight -> Blocks]}

NotStarted == [stage |-> "conc", at |-> [c \in InFlight |-> "write_key"],
               kread |-> [c \in InFlight |-> <<>>], vread |-> [c \in InFlight |-> <<>>],
               output |-> [c \in InFlight |-> <<>>]]

ConcInit ==
    /\ impl = [attn_type |-> "DECODER", prefill_use_fusedsdpa |-> FALSE,
               num_heads |-> 1, num_kv_heads |-> 1, scale |-> 1,
               alibi_slopes |-> "None"]
    /\ key_cache = PatternKeys(1)
    /\ value_cache = PatternValues(1)
    /\ const_norm = FALSE
    /\ const_pa \in BOOLEAN
    /\ env = EnvOf(const_norm, const_pa, FALSE, FALSE)
    /\ pc = "conc"
    /\ call = NoCall
    /\ entry = <<key_cache, value_cache>>
    /\ result = NoResult
    /\ prev = NoPrev
    /\ ncalls = 0
    /\ kin \in ConcInputs
    /\ kout = NotStarted
    /\ alibi_runs = NoRuns

\* the tensor index_put_ writes into: split_kv_cache hands out views of the
\* live kv_cache, not the content the call found when it began
WriteBaseSnapshot(live, snapshot) == snapshot
WriteBase(live, snapshot) == live

\* the blocks a call fetched, as the cache flat_pa goes on with
Fetched(blocks, block_list) ==
    [b \in Blocks |->
        IF \E i \in 1..Len(block_list) : block_list[i] = b
        THEN blocks[CHOOSE i \in 1..Len(block_list) : block_list[i] = b]
        ELSE EmptyCache(1)[b]]

ConcWriteKey(c) ==
    /\ pc = "conc"
    /\ kout.at[c] = "write_key"
    /\ key_cache' \in VLLMKVCache(kin.calls[c].key, WriteBase(key_cache, entry[1]),
                                   kin.calls[c].block_indices, kin.calls[c].block_offsets)
    /\ kout' = [kout EXCEPT !.at[c] = "write_value"]
    /\ UNCHANGED <<const_norm, const_pa, impl, value_cache, pc, call, entry,
                   result, prev, ncalls, kin, env, alibi_runs>>

ConcWriteValue(c) ==
    /\ pc = "conc"
    /\ kout.at[c] = "write_value"
    /\ value_cache' \in VLLMKVCache(kin.calls[c].value, WriteBase(value_cache, entry[2]),
                                     kin.calls[c].block_indices, kin.calls[c].block_offsets)
    /\ kout' = [kout EXCEPT !.at[c] = "fetch_keys"]
    /\ UNCHANGED <<const_norm, const_pa, impl, key_cache, pc, call, entry,
                   result, prev, ncalls, kin, env, alibi_runs>>

\* keys_fetch_func(key_cache, block_list)
ConcFetchKeys(c) ==
    /\ pc = "conc"
    /\ kout.at[c] = "fetch_keys"
    /\ kout' = [kout EXCEPT !.at[c] = "fetch_values",
                            !.kread[c] = fetch_from_cache(key_cache, kin.calls[c].block_list)]
    /\ UNCHANGED <<const_norm, const_pa, impl, key_cache, value_cache, pc, call, entry,
                   result, prev, ncalls, kin, env, alibi_runs>>

\* values_fetch_func(value_cache, block_list)
ConcFetchValues(c) ==
    /\ pc = "conc"
    /\ kout.at[c] = "fetch_values"
    /\ kout' = [kout EXCEPT !.at[c] = "attend",
                            !.vread[c] = fetch_from_cache(value_cache, kin.calls[c].block_list)]
    /\ UNCHANGED <<const_norm, const_pa, impl, key_cache, value_cache, pc, call, entry,
                   result, prev, ncalls, kin, env, alibi_runs>>

ConcAttend(c) ==
    /\ pc = "conc"
    /\ kout.at[c] = "attend"
    /\ kout' = [kout EXCEPT !.at[c] = "done",
                            !.output[c] =
                                flat_pa(kin.calls[c].query,
                                        Fetched(kout.kread[c], kin.calls[c].block_list),
                                        Fetched(kout.vread[c], kin.calls[c].block_list),
                                        kin.calls[c].block_list, kin.calls[c].block_mapping,
                                        kin.calls[c].attn_bias, impl.scale)]
    /\ UNCHANGED <<const_norm, const_pa, impl, key_cache, value_cache, pc, call, entry,
                   result, prev, ncalls, kin, env, alibi_runs>>

ConcNext ==
    \E c \in InFlight :
        \/ ConcWriteKey(c)
        \/ ConcWriteValue(c)
        \/ ConcFetchKeys(c)
        \/ ConcFetchValues(c)
        \/ ConcAttend(c)

ConcSpec == ConcInit /\ [][ConcNext]_vars

(***************************************************************************)
(* llama.py: the splits of LlamaAttention, LlamaDecoderLayer and           *)
(* LlamaModel.  A tensor is its shape; a list of tensors is the sequence   *)
(* of the row counts of its members.                                       *)
(***************************************************************************)
\* orig_split_size below this is a number of slices, otherwise a slice length
FixedLengthFrom == 128
\* hidden_states with fewer elements are not split by batch
SkipSplitBelow == 1024 * 4 * 8192

Max2(a, b) == IF a > b THEN a ELSE b

\* get_split_size: the number of tokens of a slice
get_split_size(seq_len, batch_size, orig_split_size) ==
    IF orig_split_size < FixedLengthFrom
    THEN Max2((seq_len * batch_size) \div orig_split_size, 1)
    ELSE orig_split_size

\* LlamaDecoderLayer.__init__: what the layer and its attention keep of
\* VLLM_TP_SPLIT_SIZE_BY_SEQ, OUTPUT_SLICE and VLLM_TP_O_PROJ_SPLIT_ENABLE
AttentionDoSplit(do_split, enable_o_proj_split) == do_split /\ enable_o_proj_split
LayerConfig(split_by_seq, output_slice, enable_o_proj_split) ==
    [split_size |-> split_by_seq,
     do_split |-> split_by_seq > 1,
     output_slice |-> output_slice /\ split_by_seq > 1,
     self_attn |-> [do_split |-> AttentionDoSplit(split_by_seq > 1, enable_o_proj_split),
                    split_size |-> split_by_seq,
                    output_slice |-> output_slice]]

\* LlamaAttention.forward: the output projection, whole or slice by slice
LlamaAttentionForward(attn, batch_size, seq_len, is_prompt) ==
    LET split_size == get_split_size(seq_len, batch_size, attn.split_size)
        do_split == attn.do_split /\ is_prompt
    IN  IF (seq_len * batch_size) % split_size = 0 /\ do_split
        THEN [split |-> TRUE,
              slices |-> (seq_len * batch_size) \div split_size,
              slice_tokens |-> split_size,
              returns |-> IF attn.output_slice THEN "list" ELSE "tensor"]
        ELSE [split |-> FALSE, slices |-> 1, slice_tokens |-> seq_len * batch_size,
              returns |-> "tensor"]

\* LlamaDecoderLayer.forward without the split by batch: the branch taken
\* after self_attn
LayerBranch(layer, batch_size, seq_len, is_prompt) ==
    LET split_size == get_split_size(seq_len, batch_size, layer.split_size)
        do_split == layer.do_split /\ is_prompt
    IN  IF do_split /\ (seq_len * batch_size) % split_size = 0 /\ layer.output_slice
        THEN "slice_by_slice" ELSE "fully_connected"

\* split_tensor(tensor, num_partitions): torch.split in chunks of
\* size // num_partitions rows; <<>> when that is 0 and torch.split raises
split_tensor(rows, num_partitions) ==
    LET dim_size == rows \div num_partitions
    IN  IF dim_size = 0 THEN <<>>
        ELSE [i \in 1..((rows + dim_size - 1) \div dim_size) |->
                 IF i * dim_size <= rows THEN dim_size ELSE rows - (i - 1) * dim_size]

Tensor(rows) == [is_list |-> FALSE, chunks |-> <<rows>>]
ListOf(chunks) == [is_list |-> TRUE, chunks |-> chunks]
\* residual=None
NoTensor == [is_list |-> FALSE, chunks |-> <<>>]
SumTo(chunks, n) == LET f[i \in 0..n] == IF i = 0 THEN 0 ELSE f[i - 1] + chunks[i] IN f[n]
RowsOf(t) == SumTo(t.chunks, Len(t.chunks))

\* isinstance(hidden_states, torch.Tensor) and (one row or a small tensor)
SkipSplit(hidden_states, seq_len, hidden_size) ==
    /\ ~hidden_states.is_list
    /\ \/ RowsOf(hidden_states) = 1
       \/ RowsOf(hidden_states) * seq_len * hidden_size < SkipSplitBelow

\* try_split_forward: the first tp_parallel_size members go through the
\* layer; layer 0 makes the list and the last layer concatenates it
try_split_forward(layer_idx, total_num_layers, split, hidden_states, residual) ==
    LET hidden_states_list == IF layer_idx = 0
                              THEN split_tensor(RowsOf(hidden_states), split)
                              ELSE hidden_states.chunks
        res == [i \in 1..split |-> hidden_states_list[i]]
    IN  IF Len(hidden_states_list) < split
        THEN [raised |-> TRUE, hidden_states |-> hidden_states, residual |-> residual]
        ELSE IF layer_idx = total_num_layers - 1
        THEN [raised |-> FALSE, hidden_states |-> Tensor(SumTo(res, split)),
              residual |-> Tensor(SumTo(res, split))]
        ELSE [raised |-> FALSE, hidden_states |-> ListOf(res), residual |-> ListOf(res)]

\* LlamaDecoderLayer.forward with VLLM_TP_SPLIT_SIZE_BY_SEQ left at 1
LlamaDecoderLayerForward(layer_idx, m, hidden_states, residual) ==
    IF \/ ~m.is_prompt
       \/ m.tp_parallel_size = 1
       \/ SkipSplit(hidden_states, m.seq_len, m.hidden_size)
    THEN [raised |-> hidden_states.is_list, hidden_states |-> hidden_states,
          residual |-> hidden_states]
    ELSE try_split_forward(layer_idx, m.num_layers, m.tp_parallel_size,
                           hidden_states, residual)

MaxBatch == 3
MaxLayers == 3

SplitInputs ==
    {[kind |-> "layer", split_by_seq |-> ss, output_slice |-> os, enable_o_proj_split |-> en,
      batch_size |-> b, seq_len |-> sl, is_prompt |-> ip] :
        ss \in {1, 2, 3, 4, FixedLengthFrom, FixedLengthFrom + 2},
        os \in BOOLEAN, en \in BOOLEAN, b \in 1..MaxBatch,
        sl \in {1, 2, 4, 5, FixedLengthFrom + 2, 2 * FixedLengthFrom + 4}, ip \in BOOLEAN}
ModelInputs ==
    {[kind |-> "model", tp_parallel_size |-> tp, num_layers |-> nl, batch_size |-> b,
      seq_len |-> sl, hidden_size |-> 8192, is_prompt |-> ip] :
        tp \in 1..3, nl \in 1..MaxLayers, b \in 1..(MaxBatch + 2), sl \in {1, 2048},
        ip \in BOOLEAN}

LlamaInit ==
    /\ impl = [attn_type |-> "DECODER", prefill_use_fusedsdpa |-> FALSE,
               num_heads |-> 1, num_kv_heads |-> 1, scale |-> 1,
               alibi_slopes |-> "None"]
    /\ key_cache = EmptyCache(1)
    /\ value_cache = EmptyCache(1)
    /\ const_norm = FALSE
    /\ const_pa = FALSE
    /\ env = EnvOf(const_norm, const_pa, FALSE, FALSE)
    /\ pc = "llama"
    /\ call = NoCall
    /\ entry = <<key_cache, value_cache>>
    /\ result = NoResult
    /\ prev = NoPrev
    /\ ncalls = 0
    /\ kin \in SplitInputs \cup ModelInputs
    /\ kout = IF kin.kind = "model"
              THEN [stage |-> "layers", layer |-> 0, raised |-> FALSE,
                    hidden_states |-> Tensor(kin.batch_size), residual |-> NoTensor]
              ELSE NoKernel
    /\ alibi_runs = NoRuns

LayerOf(i) == LayerConfig(i.split_by_seq, i.output_slice, i.enable_o_proj_split)

\* LlamaAttention.forward on its own
ApplyAttention ==
    /\ pc = "llama"
    /\ kin.kind = "layer"
    /\ kout = NoKernel
    /\ kout' = [stage |-> "attention",
                attn |-> LlamaAttentionForward(LayerOf(kin).self_attn, kin.batch_size,
                                               kin.seq_len, kin.is_prompt)]
    /\ UNCHANGED <<const_norm, const_pa, impl, key_cache, value_cache, pc, call, entry,
                   result, prev, ncalls, kin, env, alibi_runs>>

\* LlamaDecoderLayer.forward around it, the split by batch off
ApplyLayer ==
    /\ pc = "llama"
    /\ kin.kind = "layer"
    /\ kout = NoKernel
    /\ kout' = [stage |-> "layer",
                attn |-> LlamaAttentionForward(LayerOf(kin).self_attn, kin.batch_size,
                                               kin.seq_len, kin.is_prompt),
                branch |-> LayerBranch(LayerOf(kin), kin.batch_size, kin.seq_len,
                                       kin.is_prompt)]
    /\ UNCHANGED <<const_norm, const_pa, impl, key_cache, value_cache, pc, call, entry,
                   result, prev, ncalls, kin, env, alibi_runs>>

\* LlamaModel.forward: one layer of the loop
RunLayer ==
    /\ pc = "llama"
    /\ kin.kind = "model"
    /\ kout.stage = "layers"
    /\ ~kout.raised
    /\ kout.layer < kin.num_layers
    /\ LET r == LlamaDecoderLayerForward(kout.layer, kin, kout.hidden_states, kout.residual)
       IN  kout' = [stage |-> "layers", layer |-> kout.layer + 1, raised |-> r.raised,
                    hidden_states |-> r.hidden_states, residual |-> r.residual]
    /\ UNCHANGED <<const_norm, const_pa, impl, key_cache, value_cache, pc, call, entry,
                   result, prev, ncalls, kin, env, alibi_runs>>

\* self.norm(hidden_states, residual) after the last layer
FinalNorm ==
    /\ pc = "llama"
    /\ kin.kind = "model"
    /\ kout.stage = "layers"
    /\ ~kout.raised
    /\ kout.layer = kin.num_layers
    /\ kout' = [kout EXCEPT !.stage = "norm"]
    /\ UNCHANGED <<const_norm, const_pa, impl, key_cache, value_cache, pc, call, entry,
                   result, prev, ncalls, kin, env, alibi_runs>>

LlamaNext ==
    \/ ApplyAttention
    \/ ApplyLayer
    \/ RunLayer
    \/ FinalNorm

LlamaSpec == LlamaInit /\ [][LlamaNext]_vars

(***************************************************************************)
(* Properties of the cache write, the dispatch and the call order.         *)
(***************************************************************************)
EncDec == impl.attn_type = "ENCODER_DECODER"
\* the slots the call's write is addressed by
WriteBlocks == IF EncDec THEN call.md.cross_block_indices ELSE call.md.block_indices
WriteOffsets == IF EncDec THEN call.md.cross_block_offsets ELSE call.md.block_offsets
ReadList == IF EncDec THEN call.md.cross_block_list ELSE call.md.block_list
Writers(b, o) == Addressing(b, o, WriteBlocks, WriteOffsets)
\* a finished call that was given a live cache and key and value tensors
WroteCall == pc = "done" /\ call.live /\ ~call.key_none /\ ~call.value_none
Frame == \A b \in Blocks, o \in Slots :
            Writers(b, o) = {} => /\ key_cache[b][o] = entry[1][b][o]
                                  /\ value_cache[b][o] = entry[2][b][o]
Aliased == \E t, u \in 1..call.n :
              t # u /\ WriteBlocks[t] = WriteBlocks[u] /\ WriteOffsets[t] = WriteOffsets[u]

NoWrite == ~result.wrote /\ key_cache = entry[1] /\ value_cache = entry[2]

\* C2 as claimed: without a live cache nothing is written and the call
\* returns an output of the query's shape, on the prefill and the decode path.
C2_AlwaysReturns ==
    (pc = "done" /\ ~call.live) =>
        NoWrite /\ result.status = "ok" /\ result.shape = call.shape

\* C2 as amended: without a live cache nothing is written; the call returns an
\* output of the query's shape exactly on the dense prefill path (is_prompt,
\* no block_list; self-attention: attn_bias set or fused SDPA enabled;
\* encoder-decoder: key and value given), and raises on the paths that read
\* the cache (decode, prefix prefill).
C2_ReturnsOnDensePrefill ==
    (pc = "done" /\ ~call.live) =>
        /\ NoWrite
        /\ result.status = "ok" =>
              result.shape = call.shape /\ result.kread = <<>> /\ result.vread = <<>>
        /\ result.status = "ok" <=>
              IF EncDec
              THEN call.md.is_prompt /\ ~call.key_none /\ ~call.value_none
              ELSE /\ call.md.is_prompt
                   /\ ~call.md.block_list_set
                   /\ (impl.prefill_use_fusedsdpa \/ call.md.attn_bias_set)

\* a prompt call without a cache returned while an earlier call's tokens are cached
C2_Witness ==
    /\ pc = "done" /\ ~call.live /\ call.md.is_prompt /\ result.status = "ok"
    /\ key_cache # EmptyCache(impl.num_kv_heads)

PathKind(path) ==
    CASE path \in {"prompt_attention", "prompt_fsdpa"} -> "dense_prefill"
      [] path = "forward_prefix" -> "prefix_prefill"
      [] path \in {"flat_pa", "forward_decode"} -> "paged_decode"
      [] OTHER -> "none"
Branch(path) == IF PathKind(path) = "paged_decode" THEN "decode" ELSE "prompt"

\* C3 as claimed: two calls with the same is_prompt take the same computation
\* path (dense prefill or paged decode), whatever block_list is.
C3_SamePath ==
    (pc = "done" /\ prev.valid /\ result.path # "none"
       /\ prev.is_prompt = call.md.is_prompt)
    => PathKind(result.path) = PathKind(prev.path)

\* C3 as amended: is_prompt alone selects between the prompt branch and the
\* decode branch (for both attention types and every flag); inside the prompt
\* branch block_list selects dense prefill or the paged prefix path.
C3_BranchByIsPrompt ==
    (pc = "done" /\ result.path # "none") =>
        /\ Branch(result.path) = (IF call.md.is_prompt THEN "prompt" ELSE "decode")
        /\ (prev.valid /\ prev.is_prompt = call.md.is_prompt)
              => Branch(result.path) = Branch(prev.path)
        /\ PathKind(result.path) = "prefix_prefill" <=>
              (call.md.is_prompt /\ call.md.block_list_set /\ ~EncDec)

\* a prompt call with a block_list followed a prompt call without one
C3_Witness ==
    /\ pc = "done" /\ prev.valid /\ prev.is_prompt /\ call.md.is_prompt
    /\ result.path = "forward_prefix" /\ prev.path \in {"prompt_attention", "prompt_fsdpa"}

\* C4: in a call with a live cache the blocks the attention reads are read
\* after the write: they hold the tokens the call wrote.
C4_ReadsOwnWrites ==
    (WroteCall /\ PathKind(result.path) \in {"paged_decode", "prefix_prefill"}) =>
        /\ result.kread = fetch_from_cache(key_cache, ReadList)
        /\ result.vread = fetch_from_cache(value_cache, ReadList)
        /\ \A i \in 1..Len(ReadList), t \in 1..call.n :
              WriteBlocks[t] = ReadList[i] =>
                 /\ \E u \in Writers(WriteBlocks[t], WriteOffsets[t]) :
                       result.kread[i][WriteOffsets[t]] = call.key[u]
                 /\ \E u \in Writers(WriteBlocks[t], WriteOffsets[t]) :
                       result.vread[i][WriteOffsets[t]] = call.value[u]

\* a decode call read a block it had written a token into
C4_Witness ==
    /\ WroteCall /\ result.path = "flat_pa" /\ result.status = "ok"
    /\ \E i \in 1..Len(ReadList), t \in 1..call.n :
          /\ WriteBlocks[t] = ReadList[i]
          /\ result.kread[i][WriteOffsets[t]] # entry[1][ReadList[i]][WriteOffsets[t]]

(***************************************************************************)
(* Properties of the decode kernels.                                       *)
(***************************************************************************)
KernelBlocks == 1..Len(kin.block_list)
FullyMasked(i) == \A o \in Slots : kin.block_bias[i][o] = MinusInf
SameSequence(i, j) == \E b \in 1..2 : kin.block_mapping[i][b] = 1 /\ kin.block_mapping[j][b] = 1
Without(seq, i) == [j \in 1..(Len(seq) - 1) |-> IF j < i THEN seq[j] ELSE seq[j + 1]]
KernelExp == ExpShift(KernelScores, const_val)

\* C5: on the paged decode path a masked position gets exactly zero weight,
\* and the output with one block fully masked equals the output computed
\* with that block removed from block_list, block_mapping and block_bias.
C5_MaskedBlockHasNoWeight ==
    /\ kout.stage = "normalised" =>
          \A i \in KernelBlocks, o \in Slots :
             kin.block_bias[i][o] = MinusInf =>
                \A r \in DOMAIN KernelExp[i] :
                   /\ KernelExp[i][r][o] = FZero
                   /\ FDiv(KernelExp[i][r][o], kout.den[i][r]) = FZero
    /\ kout.stage = "flat_pa" =>
          \A i \in KernelBlocks :
             (FullyMasked(i) /\ Len(kin.block_list) >= 2) =>
                kout.output = flat_pa(kin.query, key_cache, value_cache,
                                      Without(kin.block_list, i),
                                      Without(kin.block_mapping, i),
                                      Without(kin.block_bias, i), impl.scale)

\* a sequence with one visible and one fully masked block got a non-zero output
C5_Witness ==
    /\ kout.stage = "flat_pa"
    /\ \E i, j \in KernelBlocks :
          /\ i # j /\ SameSequence(i, j) /\ FullyMasked(i) /\ ~FullyMasked(j)
          /\ \E b \in 1..2 : kin.block_mapping[i][b] = 1 /\ kout.output[b][0] # FZero

\* the sum over the blocks of block i's sequence, reduced block by block
SequenceSum(t, i, r) ==
    FSumTo([j \in KernelBlocks |-> IF SameSequence(i, j) THEN t[j][r] ELSE FZero],
           Len(kin.block_list))

\* C6: the denominator of every block is the maximum of the block's local sum
\* and the sum over the blocks of its sequence plus epsilon; it is never zero
\* and never smaller than the local sum, also when a whole sequence is masked.
C6_DenominatorFloor ==
    kout.stage = "normalised" =>
        \A i \in KernelBlocks : \A r \in DOMAIN kout.sums[i] :
           /\ kout.den[i][r] = FMax(kout.sums[i][r],
                                    FAdd(SequenceSum(kout.sums, i, r), eps_value))
           /\ ~IsZero(kout.den[i][r]) /\ ~IsNaN(kout.den[i][r])
           /\ ~FLess(kout.den[i][r], kout.sums[i][r])

\* every block of a sequence is fully masked and its denominator is epsilon
C6_Witness ==
    /\ kout.stage = "normalised"
    /\ \E i \in KernelBlocks :
          /\ \A j \in KernelBlocks : SameSequence(i, j) => FullyMasked(j)
          /\ \A r \in DOMAIN kout.den[i] : kout.den[i][r] = eps_value

\* the distance of two results in units of the last place of the finer one
UlpApart(a, b) ==
    IF a = b THEN 0
    ELSE IF IsNaN(a) \/ IsNaN(b) \/ IsZero(a) \/ IsZero(b) THEN 2 ^ Precision
    ELSE LET e == IF a[2] < b[2] THEN a[2] ELSE b[2]
             d == a[1] * 2 ^ (a[2] - e) - b[1] * 2 ^ (b[2] - e)
         IN  IF a[2] - e > 1 \/ b[2] - e > 1 THEN 2 ^ Precision
             ELSE IF d < 0 THEN 0 - d ELSE d
\* every rounding of a quotient, a product or a partial sum moves a result by
\* at most one unit; either order performs BlockSize + 1 of them per element
Tolerance == 2 * (BlockSize + 1)

ConstantPerSequence(t) ==
    \A i, j \in KernelBlocks : SameSequence(i, j) => t[i] = t[j]

\* C8 as claimed: block2batch followed by batch2block gives a constant
\* per-block tensor back, the constant on every block of its sequence.
C8_RoundTripIdentity ==
    (kout.stage = "round_trip" /\ ConstantPerSequence(kout.sums)) =>
        kout.group_sums = kout.sums

\* C8 as amended: block2batch followed by batch2block gives every block the
\* sum of the values of the blocks of its sequence: the same value on every
\* block of a sequence, n times the constant for a sequence of n blocks, and
\* the input only where a sequence has one block.
C8_RoundTripSums ==
    kout.stage = "round_trip" =>
        \A i \in KernelBlocks : \A r \in DOMAIN kout.sums[i] :
           /\ kout.group_sums[i][r] = SequenceSum(kout.sums, i, r)
           /\ \A j \in KernelBlocks :
                 SameSequence(i, j) => kout.group_sums[j][r] = kout.group_sums[i][r]
           /\ (\A j \in KernelBlocks : SameSequence(i, j) => j = i)
                 => kout.group_sums[i][r] = kout.sums[i][r]
           /\ (ConstantPerSequence(kout.sums)
                 /\ Cardinality({j \in KernelBlocks : SameSequence(i, j)}) = 2)
                 => kout.group_sums[i][r] = FAdd(kout.sums[i][r], kout.sums[i][r])

\* a sequence of two blocks with the same non-zero constant got twice the constant
C8_Witness ==
    /\ kout.stage = "round_trip" /\ ConstantPerSequence(kout.sums)
    /\ \E i, j \in KernelBlocks :
          /\ i # j /\ SameSequence(i, j)
          /\ \E r \in DOMAIN kout.sums[i] :
                /\ ~IsZero(kout.sums[i][r])
                /\ kout.group_sums[i][r] = FAdd(kout.sums[i][r], kout.sums[i][r])

\* the cache and the query of one query head against the head of its group
HeadOfGroup(h) == h \div (impl.num_heads \div impl.num_kv_heads)
OneHeadCache(cache, kv) == [b \in Blocks |-> [o \in Slots |-> (0 :> cache[b][o][kv])]]
OneHeadQuery(h) == [b \in DOMAIN kin.query |-> (0 :> kin.query[b][h])]
SingleHead(h) ==
    flat_pa(OneHeadQuery(h), OneHeadCache(key_cache, HeadOfGroup(h)),
            OneHeadCache(value_cache, HeadOfGroup(h)), kin.block_list,
            kin.block_mapping, kin.block_bias, impl.scale)

\* C9: with grouped-query attention the output of every query head is the
\* single-head result of that head against the key/value head of its group,
\* at the position of the query head.
C9_GroupedQueryHeads ==
    (kout.stage = "flat_pa" /\ impl.num_kv_heads < impl.num_heads) =>
        /\ DOMAIN kout.output = DOMAIN kin.query
        /\ \A b \in DOMAIN kout.output :
              /\ DOMAIN kout.output[b] = 0..(impl.num_heads - 1)
              /\ \A h \in 0..(impl.num_heads - 1) :
                    kout.output[b][h] = SingleHead(h)[b][0]

\* four query heads over two key/value heads, with outputs that differ
C9_Witness ==
    /\ kout.stage = "flat_pa" /\ impl.num_heads = 4 /\ impl.num_kv_heads = 2
    /\ \E b \in DOMAIN kout.output :
          /\ kout.output[b][0] # kout.output[b][1]
          /\ kout.output[b][1] # kout.output[b][2]
          /\ ~IsZero(kout.output[b][0])

(***************************************************************************)
(* Two sequences of a decode batch over one physical block.                *)
(***************************************************************************)
\* the slots that tokens of other sequences wrote and sequence b did not
WrittenByOthers(b) ==
    {<<call.md.block_indices[t], call.md.block_offsets[t]>> : t \in (1..call.n) \ {b}}
        \ {<<call.md.block_indices[b], call.md.block_offsets[b]>>}
\* the cache as it would be had the other sequences written nothing
WithoutOthers(cache, before, b) ==
    [blk \in Blocks |-> [o \in Slots |->
        IF <<blk, o>> \in WrittenByOthers(b) THEN before[blk][o] ELSE cache[blk][o]]]
\* sequence b's block_bias masks every slot the others wrote in b's blocks
MasksOthers(b) ==
    \A i \in 1..Len(call.md.block_list) :
       call.md.block_mapping[i][b] = 1 =>
          \A s \in WrittenByOthers(b) :
             s[1] = call.md.block_list[i] => call.md.attn_bias[i][s[2]] = MinusInf
DecodeDone ==
    /\ pc = "done" /\ call.live /\ ~call.md.is_prompt
    /\ result.status = "ok" /\ result.path = "flat_pa"

\* C10: when two sequences of a decode batch share a physical block, the key
\* and value a call writes for one sequence do not change the output of the
\* other sequence, provided the other sequence's block_bias masks the slot.
C10_MaskedWriteInvisible ==
    DecodeDone =>
        \A b \in 1..call.n :
           MasksOthers(b) =>
              result.output[b] =
                 flat_pa(call.query, WithoutOthers(key_cache, entry[1], b),
                         WithoutOthers(value_cache, entry[2], b), call.md.block_list,
                         call.md.block_mapping, call.md.attn_bias, impl.scale)[b]

\* sequence 2 wrote a new key into a slot of the block that sequence 1 reads
\* and masks, and sequence 1 has an output
C10_Witness ==
    /\ DecodeDone /\ call.n = 2 /\ MasksOthers(1)
    /\ call.md.block_list[1] = call.md.block_indices[2]
    /\ call.md.block_mapping[1][1] = 1
    /\ \E s \in WrittenByOthers(1) :
          /\ s[1] = call.md.block_list[1]
          /\ key_cache[s[1]][s[2]] # entry[1][s[1]][s[2]]
    /\ ~IsZero(result.output[1][0])

(***************************************************************************)
(* ALiBi, configuration knobs, block tables, metadata and failures.        *)
(***************************************************************************)
\* C11: over the forward calls of one instance _make_alibi_bias runs at most
\* once per slope/head/length configuration: the bias is cached, not recomputed.
C11_AlibiComputedOnce ==
    \A len \in 1..MaxTokens : alibi_runs[len] <= 1

\* the policy the values read at import select
LatchedPolicy == IF const_pa THEN "pipelined_const_pa"
                 ELSE IF const_norm THEN "pa" ELSE "pipelined_pa"
DecodeReturned == pc = "done" /\ ~call.md.is_prompt /\ result.status = "ok"

\* C14 as claimed: a change of the environment or of the enabled flags between
\* two forward calls changes neither the code path nor the constants of the
\* second call: it runs the softmax in the dtype the flags at construction gave.
C14_EnvChangeInvisible ==
    DecodeReturned => result.softmax_dtype = "bfloat16"

\* C14 as amended: the normalisation policy (with epsilon and the constant
\* shift) is read once at import and the fused-prefill flag once at
\* construction, and no later change of the environment reaches a call; the
\* fp32_softmax flag is looked up in enabled_flags() by every decode call,
\* which runs the softmax in the dtype the flags give at that call.
C14_LatchedExceptFp32 ==
    [][ /\ const_norm' = const_norm /\ const_pa' = const_pa /\ impl' = impl
        /\ DecodeReturned' =>
              /\ result'.policy = LatchedPolicy'
              /\ result'.softmax_dtype =
                    (IF env'.fp32_softmax THEN "float32" ELSE "bfloat16")
        /\ (pc' = "done" /\ result'.path \in {"prompt_fsdpa", "prompt_attention"}
              /\ ~EncDec') =>
              (result'.path = "prompt_fsdpa" <=>
                  (call'.md.enable_merged_prefill /\ impl.prefill_use_fusedsdpa))
      ]_vars

\* a decode call returned after the environment and the flags had changed
C14_Witness ==
    /\ DecodeReturned /\ env.fp32_softmax /\ ncalls = 2
    /\ env.VLLM_SOFTMAX_CONST_PA # const_pa
    /\ result.policy = LatchedPolicy /\ result.softmax_dtype = "float32"

\* the slots whose content the call changed
ChangedSlots ==
    {<<b, o>> \in Blocks \X Slots :
        key_cache[b][o] # entry[1][b][o] \/ value_cache[b][o] # entry[2][b][o]}

\* C15: forward_encoder_decoder writes only at cross_block_indices /
\* cross_block_offsets and its decode reads only by the cross_* tables; the
\* self-attention forward works with the plain tables and no cross_* field.
C15_TablesApart ==
    pc = "done" =>
        LET md == call.given IN
        IF EncDec
        THEN /\ \A s \in ChangedSlots :
                   Addressing(s[1], s[2], md.cross_block_indices,
                              md.cross_block_offsets) # {}
             /\ result.path = "forward_decode" =>
                   /\ result.kread = fetch_from_cache(key_cache, md.cross_block_list)
                   /\ result.vread = fetch_from_cache(value_cache, md.cross_block_list)
             /\ (result.path = "forward_decode" /\ result.status = "ok") =>
                   /\ result.bias = "cross_attn_bias"
                   /\ result.output =
                         forward_decode(call.query, key_cache, value_cache,
                                        md.cross_block_list, md.cross_block_mapping,
                                        md.cross_attn_bias, impl.scale)
        ELSE /\ \A s \in ChangedSlots :
                   Addressing(s[1], s[2], md.block_indices, md.block_offsets) # {}
             /\ result.path \in {"flat_pa", "forward_prefix"} =>
                   /\ result.kread = fetch_from_cache(key_cache, md.block_list)
                   /\ result.vread = fetch_from_cache(value_cache, md.block_list)
             /\ result.bias # "cross_attn_bias"
             /\ (result.path = "flat_pa" /\ result.status = "ok") =>
                   result.output = flat_pa(call.query, key_cache, value_cache,
                                           md.block_list, md.block_mapping,
                                           md.attn_bias, impl.scale)

\* an encoder-decoder decode wrote a slot that the self-attention tables do
\* not address and read the blocks of the cross block list
C15_Witness ==
    /\ pc = "done" /\ EncDec /\ result.path = "forward_decode" /\ result.status = "ok"
    /\ \E s \in ChangedSlots :
          Addressing(s[1], s[2], call.given.block_indices, call.given.block_offsets) = {}
    /\ call.given.cross_block_list # call.given.block_list

\* C16: in merged prefill with the fused kernel the kernel is given the valid
\* length of every segment (attn_metadata.seq_lens_tensor).
C16_KernelGetsValidLengths ==
    (pc = "done" /\ result.path = "prompt_fsdpa") =>
        result.kernel_args.valid_seq_lengths = call.given.seq_lens_tensor

\* C18: a forward call never mutates its metadata: after the call every
\* field holds the value the caller gave it.
C18_MetadataUnchanged ==
    pc = "done" => call.md = call.given

\* a prompt run added the ALiBi bias to the tiled attn_bias
C18_Witness ==
    /\ pc = "done" /\ result.status = "ok" /\ result.path = "prompt_attention"
    /\ ~EncDec /\ result.alibi # <<>> /\ call.n = 2
    /\ result.kernel_args.attn_bias[0] # call.given.attn_bias

\* C19: a forward call that raises has applied none of its effects: the
\* cache is as it was before the call.
C19_RaiseLeavesCache ==
    (pc = "done" /\ result.status = "raised") =>
        key_cache = entry[1] /\ value_cache = entry[2]

(***************************************************************************)
(* _make_alibi_bias, the constructor's checks and the cache write on their *)
(* own.                                                                    *)
(***************************************************************************)
AlibiReturned == pc = "unit" /\ kout.stage = "alibi"
\* the slope of the head the key k of the returned tensor stands for
SlopeAt(k) ==
    IF Len(kin.alibi_slopes) # kin.num_kv_heads
    THEN kin.alibi_slopes[k[1] * (Len(kin.alibi_slopes) \div kin.num_kv_heads) + k[2] + 1]
    ELSE kin.alibi_slopes[k + 1]
Distance(i, j) == IF j < i THEN i - j ELSE j - i
AlibiDeterministic == AlibiReturned => kout.first = kout.second
AlibiNoPadding ==
    AlibiReturned =>
        \A k \in DOMAIN kout.first : \A i \in DOMAIN kout.first[k] :
            DOMAIN kout.first[k][i] = 1..kin.seq_len
AlibiLinear ==
    AlibiReturned =>
        \A k \in DOMAIN kout.first : \A i, j \in 1..kin.seq_len :
            /\ kout.first[k][i][j].mag = FMul(FromInt(Distance(i, j)), SlopeAt(k))
            /\ i # j => kout.first[k][i][j].neg = (j < i)

\* C12: two calls of _make_alibi_bias with the same slopes, num_kv_heads, dtype
\* and seq_len return the same tensor, whatever the buffers held before; the
\* tensor has seq_len columns and its entry for head h, query position i and
\* key position j is the product, in the dtype, of slope[h] and j - i.
C12_AlibiEntries == AlibiDeterministic /\ AlibiNoPadding /\ AlibiLinear

Constructed == pc = "unit" /\ kout.stage = "init"
BadHeadSize == kin.head_size \notin SupportedHeadSizes
BadAlibi == kin.alibi_slopes # NoSlopes /\ kin.fsdpa
BadHeads == kin.num_heads % kin.num_kv_heads # 0
BadType == kin.attn_type \notin {"DECODER", "ENCODER_DECODER"}
Faults ==
    (IF BadHeadSize THEN {"ValueError"} ELSE {})
    \cup (IF BadAlibi \/ BadHeads THEN {"AssertionError"} ELSE {})
    \cup (IF BadType THEN {"NotImplementedError"} ELSE {})

\* C13: the constructor returns no instance whose head size is unsupported,
\* whose ALiBi slopes meet the enabled fused prefill, whose num_heads is no
\* multiple of num_kv_heads or whose attention type is neither DECODER nor
\* ENCODER_DECODER: it raises the error named for a fault the arguments have
\* (ValueError, AssertionError, AssertionError, NotImplementedError), and it
\* returns an instance when they have none.
C13_RejectedAtConstruction ==
    Constructed =>
        IF Faults = {} THEN kout.made.raised = "none"
                       ELSE kout.made.raised \in Faults

\* an unsupported head size, and nothing else wrong, has raised ValueError
C13_Witness ==
    /\ Constructed
    /\ BadHeadSize /\ ~BadAlibi /\ ~BadHeads /\ ~BadType
    /\ kout.made.raised = "ValueError"

\* C20: a cache write with another number of values than of (block index,
\* block offset) pairs raises and leaves the cache as it was.
C20_MismatchRaises ==
    (pc = "unit" /\ kout.stage = "write" /\ Len(kin.input) # Len(kin.block_indices))
        => kout.raised /\ key_cache = EmptyCache(1)


(***************************************************************************)
(* Two calls in flight.                                                    *)
(***************************************************************************)
Range(f) == {f[i] : i \in DOMAIN f}
\* the caller's guarantee: the calls write different blocks and neither
\* reads a block the other writes
CallerGuarantee ==
    \A c, d \in InFlight :
        c # d => /\ Range(kin.calls[c].block_indices) \cap Range(kin.calls[d].block_indices) = {}
                 /\ Range(kin.calls[c].block_list) \cap Range(kin.calls[d].block_indices) = {}
BothDone == pc = "conc" /\ \A c \in InFlight : kout.at[c] = "done"

\* the call c alone on the caches kc and vc: the caches it leaves and its output
AfterCall(c, kc, vc) ==
    LET k2 == CHOOSE x \in VLLMKVCache(kin.calls[c].key, kc, kin.calls[c].block_indices,
                                       kin.calls[c].block_offsets) : TRUE
        v2 == CHOOSE x \in VLLMKVCache(kin.calls[c].value, vc, kin.calls[c].block_indices,
                                       kin.calls[c].block_offsets) : TRUE
    IN  [key_cache |-> k2, value_cache |-> v2,
         output |-> flat_pa(kin.calls[c].query, k2, v2, kin.calls[c].block_list,
                            kin.calls[c].block_mapping, kin.calls[c].attn_bias, impl.scale)]
\* the call c and then the call d
OneAfterTheOther(c, d) ==
    LET a == AfterCall(c, entry[1], entry[2])
        b == AfterCall(d, a.key_cache, a.value_cache)
    IN  [key_cache |-> b.key_cache, value_cache |-> b.value_cache,
         output |-> [x \in InFlight |-> IF x = c THEN a.output ELSE b.output]]
Interleaved == [key_cache |-> key_cache, value_cache |-> value_cache, output |-> kout.output]

\* C17: when two calls in flight write different blocks and neither reads a
\* block the other writes, every interleaving of their cache writes and block
\* fetches ends with the cache content and the two outputs of the calls run
\* one after the other, in either order.
C17_InterleavingsAgree ==
    (BothDone /\ CallerGuarantee) =>
        /\ Interleaved = OneAfterTheOther(1, 2)
        /\ Interleaved = OneAfterTheOther(2, 1)

\* two calls under the guarantee have both written, fetched and attended
C17_Witness ==
    /\ BothDone
    /\ CallerGuarantee
    /\ key_cache # entry[1]
    /\ \A c \in InFlight : kout.output[c] # <<>>


(***************************************************************************)
(* The cache write and the decode gather.                                  *)
(***************************************************************************)
Wrote == pc = "unit" /\ kout.stage = "write" /\ ~kout.raised
                     /\ Len(kin.input) = Len(kin.block_indices)
DistinctPairs ==
    \A t, u \in 1..Len(kin.block_indices) :
        t # u => <<kin.block_indices[t], kin.block_offsets[t]>>
                     # <<kin.block_indices[u], kin.block_offsets[u]>>
Permuted(seq, p) == [t \in 1..Len(seq) |-> seq[p[t]]]

\* C21: when the (block index, block offset) pairs of one write are pairwise
\* distinct, the same (value, index, offset) triples listed in any permutation
\* and landing in any order leave the one cache the write has left.
C21_OrderIndependent ==
    (Wrote /\ DistinctPairs) =>
        \A p \in Orders(Len(kin.input)) :
            VLLMKVCache(Permuted(kin.input, p), entry[1],
                        Permuted(kin.block_indices, p), Permuted(kin.block_offsets, p))
                = {key_cache}

\* two different values have been written to two different slots
C21_Witness ==
    /\ Wrote
    /\ DistinctPairs
    /\ Len(kin.input) = 2
    /\ kin.input[1] # kin.input[2]
    /\ key_cache # entry[1]


FlatPaDone == pc = "kernel" /\ kout.stage = "flat_pa"
\* the sequence row i of block_mapping assigns block i to
OwnerOf(i) == CHOOSE b \in 1..Len(kin.query) : kin.block_mapping[i][b] = 1
HeadOfRow(r) ==
    IF impl.num_heads # impl.num_kv_heads
    THEN FlattenHead(r, impl.num_heads, impl.num_kv_heads) ELSE r

\* C22: in a decode run the i-th gathered key block and value block are the
\* cache blocks block_list[i], and the scores of block i are the products of
\* its keys with the scaled query of the sequence row i of block_mapping
\* names, plus row i of block_bias.
C22_GatherInBlockListOrder ==
    FlatPaDone =>
        \A i \in 1..Len(kin.block_list) :
            /\ kout.key[i] = key_cache[kin.block_list[i]]
            /\ kout.value[i] = value_cache[kin.block_list[i]]
            /\ \A r \in DOMAIN kout.attn[i] : \A o \in Slots :
                  kout.attn[i][r][o] =
                      ScoreAdd(impl.scale * kin.query[OwnerOf(i)][HeadOfRow(r)]
                                   * key_cache[kin.block_list[i]][o]
                                              [KvOf(r, impl.num_heads, impl.num_kv_heads)],
                               kin.block_bias[i][o])

\* two different blocks gathered for two different sequences, out of cache
\* order, the second with masked slots
C22_Witness ==
    /\ FlatPaDone
    /\ Len(kin.block_list) = 2
    /\ kin.block_list[1] > kin.block_list[2]
    /\ key_cache[kin.block_list[1]] # key_cache[kin.block_list[2]]
    /\ OwnerOf(1) # OwnerOf(2)
    /\ kin.query[1] # kin.query[2]
    /\ \E o \in Slots : kin.block_bias[2][o] = MinusInf


(***************************************************************************)
(* The cache as allocated.                                                 *)
(***************************************************************************)
Geometry(cache) ==
    /\ DOMAIN cache = Blocks
    /\ \A b \in Blocks : DOMAIN cache[b] = Slots
MemoryProbe == pc # "idle" /\ call.n > 0 /\ ~call.live

\* C23: over every sequence of forward calls both caches keep the blocks and
\* the block size they were allocated with, and a call made without a cache
\* (a memory probe) writes no cache and leaves both as they were: nothing it
\* does stands in for a cache afterwards.
C23_NoAllocation ==
    /\ Geometry(key_cache)
    /\ Geometry(value_cache)
    /\ MemoryProbe => /\ ~result.wrote
                      /\ key_cache = entry[1]
                      /\ value_cache = entry[2]

\* a memory probe has run to its end after a call that wrote the cache
C23_Witness ==
    /\ MemoryProbe
    /\ pc = "done"
    /\ ncalls = MaxCalls
    /\ key_cache # EmptyCache(impl.num_kv_heads)


(***************************************************************************)
(* ALiBi on the decode path, the normalisation policy, cross-attention.    *)
(***************************************************************************)
\* C24: a decode call of an instance with ALiBi slopes has computed the
\* per-head position bias and added it to the scores its kernel
\* normalises, as a dense prefill call of that instance does.
C24_DecodeAddsAlibi ==
    (pc = "done" /\ ~EncDec /\ impl.alibi_slopes # "None"
       /\ result.path = "flat_pa" /\ result.status = "ok")
        => result.alibi # <<>>


\* what flat_pa returns when the kernel named policy normalises the scores
OutputUnder(policy) ==
    LET out == IF policy = "pipelined_const_pa"
               THEN pipelined_const_pa(KernelScores, KernelValues, kin.block_mapping)
               ELSE IF policy = "pa"
               THEN pa(KernelScores, KernelValues, kin.block_mapping)
               ELSE pipelined_pa(KernelScores, KernelValues, kin.block_mapping)
        ob  == block2batch(out, kin.block_mapping)
    IN  [b \in 1..Len(kin.query) |-> [h \in DOMAIN kin.query[1] |->
            IF impl.num_heads # impl.num_kv_heads
            THEN ob[b][UnflattenHead(h, impl.num_heads, impl.num_kv_heads)]
            ELSE ob[b][h]]]

\* C25: a decode run returns what one kernel gives: pipelined_const_pa when
\* VLLM_SOFTMAX_CONST_PA was true at import, whatever VLLM_SOFTMAX_CONST_NORM
\* was; otherwise pa when VLLM_SOFTMAX_CONST_NORM was true; otherwise
\* ops.pipelined_pa.
C25_PolicyPrecedence ==
    FlatPaDone =>
        kout.output = OutputUnder(IF env.VLLM_SOFTMAX_CONST_PA THEN "pipelined_const_pa"
                                  ELSE IF env.VLLM_SOFTMAX_CONST_NORM THEN "pa"
                                  ELSE "pipelined_pa")

\* both variables were true and the two kernels do not give the same output
C25_Witness ==
    /\ FlatPaDone
    /\ env.VLLM_SOFTMAX_CONST_PA
    /\ env.VLLM_SOFTMAX_CONST_NORM
    /\ OutputUnder("pa") # OutputUnder("pipelined_const_pa")
    /\ kout.output = OutputUnder("pipelined_const_pa")


EDDone == pc = "done" /\ EncDec
OneIsNone == call.key_none # call.value_none
BothNone == call.key_none /\ call.value_none
Untouched == ~result.wrote /\ key_cache = entry[1] /\ value_cache = entry[2]
\* a cross-attention decode call without key and value leaves the cache as it
\* was and gathers the blocks of cross_block_list
CrossDecodeReads ==
    (EDDone /\ BothNone /\ ~call.md.is_prompt) =>
        /\ Untouched
        /\ call.live => /\ result.path = "forward_decode"
                        /\ result.kread = fetch_from_cache(key_cache, call.md.cross_block_list)
                        /\ result.vread = fetch_from_cache(value_cache, call.md.cross_block_list)

\* C26 as stated: a call of forward_encoder_decoder with key and value both
\* None in decode writes nothing and reads through cross_block_list, and a call
\* with exactly one of them None fails an assertion before any cache write.
C26_OneNoneFailsAssertion ==
    /\ CrossDecodeReads
    /\ (EDDone /\ OneIsNone) =>
          /\ result.status = "raised"
          /\ result.error = "AssertionError"
          /\ Untouched

\* C26: the same, where a call with exactly one of key and value None raises
\* before any cache write: an AssertionError, except that a prompt run whose
\* key is None raises AttributeError at key.shape before the assertions.
C26_OneNoneRejected ==
    /\ CrossDecodeReads
    /\ (EDDone /\ OneIsNone) =>
          /\ result.status = "raised"
          /\ result.error = (IF call.md.is_prompt /\ call.key_none
                             THEN "AttributeError" ELSE "AssertionError")
          /\ Untouched

\* a prompt run with a live cache, key None and a value has raised, after a
\* call that wrote the cache
C26_Witness ==
    /\ EDDone
    /\ call.live
    /\ call.md.is_prompt
    /\ call.key_none /\ ~call.value_none
    /\ result.status = "raised"
    /\ key_cache # EmptyCache(impl.num_kv_heads)


(***************************************************************************)
(* The splits of llama.py.                                                 *)
(***************************************************************************)
\* C27: whenever LlamaAttention.forward splits the output projection, a
\* configured split size below 128 is the number of the slices and a split
\* size above 128 is the number of tokens of every slice.
C27_SliceCount ==
    (pc = "llama" /\ kout.stage = "attention" /\ kout.attn.split) =>
        /\ kin.split_by_seq < FixedLengthFrom => kout.attn.slices = kin.split_by_seq
        /\ kin.split_by_seq > FixedLengthFrom => kout.attn.slice_tokens = kin.split_by_seq

\* C28: LlamaAttention.forward returns a list of slices exactly when
\* LlamaDecoderLayer.forward goes on slice by slice.
C28_ListIffSliceBranch ==
    (pc = "llama" /\ kout.stage = "layer") =>
        (kout.attn.returns = "list" <=> kout.branch = "slice_by_slice")

BatchSplitMode ==
    /\ pc = "llama"
    /\ kin.kind = "model"
    /\ kin.is_prompt
    /\ kin.tp_parallel_size > 1
    /\ ~SkipSplit(Tensor(kin.batch_size), kin.seq_len, kin.hidden_size)
Covers(t) == RowsOf(t) = kin.batch_size

\* C29: in batch-split mode no layer raises, the layers before the last hand
\* on lists of tp_parallel_size chunks that cover every row, and the final
\* norm receives hidden states and residual as single tensors of as many
\* rows as the input.
C29_ChunksCoverRows ==
    BatchSplitMode =>
        /\ ~kout.raised
        /\ (kout.stage = "layers" /\ kout.layer > 0 /\ kout.layer < kin.num_layers) =>
              /\ kout.hidden_states.is_list /\ kout.residual.is_list
              /\ Len(kout.hidden_states.chunks) = kin.tp_parallel_size
              /\ Covers(kout.hidden_states) /\ Covers(kout.residual)
        /\ kout.stage = "norm" =>
              /\ ~kout.hidden_states.is_list /\ ~kout.residual.is_list
              /\ Covers(kout.hidden_states) /\ Covers(kout.residual)

=============================================================================
